---- MODULE Spec2Model ----
(***************************************************************************)
(* Coding-job pipeline of the BrainSAIT DRG suite worker: the job store,   *)
(* the audit log, and the ingest / accept routes, translated from          *)
(* src/src/lib/api-client.ts (enhanced routes), src/worker/user-routes.ts  *)
(* (mock ingest route) and src/shared/types.ts (types and seed data).      *)
(* Confidences are integers in hundredths (0.85 is 85).                    *)
(***************************************************************************)
EXTENDS Integers, Sequences, FiniteSets, Bags, TLC

VARIABLES
    jobs,        \* CodingJobEntity collection: id |-> CodingJob
    audit,       \* AuditLogEntity collection, as a bag of records
    claims,      \* ClaimEntity collection: id |-> status
    encounters,  \* EncounterEntity collection: ids in list order
    clock,       \* number of ingest requests handled; the time of created_at
    last         \* the latest ingest / accept request and its response

vars == <<jobs, audit, claims, encounters, clock, last>>

\* Clearinghouse client (NphiesConnector)
VARIABLES
    now,          \* time.time(), in seconds
    tokenData,    \* self._token_data: the cached token, or NoToken
    refreshLock,  \* the call that holds the refresh critical section, or "none"
    calls         \* the outbound calls in progress: call id |-> its position

clientVars == <<now, tokenData, refreshLock, calls>>

\* Offline tools of the implementation plan (src/IMPLEMENTATION_PLAN.md) and
\* stand-alone routes of the worker
VARIABLES
    grouping,     \* the latest APR-DRG grouping call: its inputs and its result
    worklist,     \* the latest prioritize_worklist call: its input and its result
    scoring,      \* the latest calculate_opportunity_score call
    kpi,          \* the latest KPI calculation: its input and its result
    engineRun,    \* the latest run_coding_job of the engine with both groupers
    eapg,         \* the latest EAPG grouping call: its inputs and its result
    limiter,      \* error reports counted by POST /api/client-errors
    listing,      \* pages of GET /api/claims a client has followed
    recon         \* payments and the reconcile-batch requests in progress

toolVars ==
    <<grouping, worklist, scoring, kpi, engineRun, eapg, limiter, listing, recon>>

\* what a call of one tool leaves alone: the other tools
besides_grouping ==
    <<worklist, scoring, kpi, engineRun, eapg, limiter, listing, recon>>
besides_worklist ==
    <<grouping, scoring, kpi, engineRun, eapg, limiter, listing, recon>>
besides_scoring ==
    <<grouping, worklist, kpi, engineRun, eapg, limiter, listing, recon>>
besides_kpi ==
    <<grouping, worklist, scoring, engineRun, eapg, limiter, listing, recon>>
besides_engineRun ==
    <<grouping, worklist, scoring, kpi, eapg, limiter, listing, recon>>
besides_eapg ==
    <<grouping, worklist, scoring, kpi, engineRun, limiter, listing, recon>>
besides_limiter ==
    <<grouping, worklist, scoring, kpi, engineRun, eapg, listing, recon>>
besides_listing ==
    <<grouping, worklist, scoring, kpi, engineRun, eapg, limiter, recon>>
besides_recon ==
    <<grouping, worklist, scoring, kpi, engineRun, eapg, limiter, listing>>

\* what the steps of one component leave alone: the other components
exceptWorker == <<clientVars, toolVars>>
exceptClient == <<vars, toolVars>>
exceptTools == <<vars, clientVars>>

----------------------------------------------------------------------------
(* Bounds of the model *)

\* number of ingest requests
MaxIngest == 2
\* number of accept requests that write their audit record
MaxAccept == 2
\* number of clearinghouse rejections
MaxReject == 1

----------------------------------------------------------------------------
(* Program constants *)

\* confidence_score > 0.98 (autonomous threshold)
AUTONOMOUS_THRESHOLD == 98
\* confidence_score > 0.90 (semi-autonomous threshold)
SEMI_THRESHOLD == 90
\* Math.min(0.99, ...) cap of a suggested code's confidence
CONFIDENCE_CAP == 99
\* fallback code confidence 0.50
FALLBACK_CONFIDENCE == 50
\* Math.random() * 0.10 - 0.05: jitter of at most 0.05 either way
JITTER_MAX == 5

LOW_COMPLEXITY == "low-complexity outpatient"
STANDARD == "standard"

\* body?.visit_complexity || 'standard': the values a request can carry
VisitComplexities == {STANDARD, LOW_COMPLEXITY}

\* CodingJob['status'] and CodingJob['phase'] of shared/types.ts
JobStatuses == {"NEEDS_REVIEW", "AUTO_DROP", "SENT_TO_NPHIES", "REJECTED"}
JobPhases == {"CAC", "SEMI_AUTONOMOUS", "AUTONOMOUS"}

----------------------------------------------------------------------------
(* Seed data (shared/types.ts, second MOCK_* block) *)

SC(code, conf) == [code |-> code, confidence |-> conf]

SeedJob(enc, codes, st, score, ph) ==
    [encounter_id |-> enc, suggested_codes |-> codes, status |-> st,
     confidence_score |-> score, phase |-> ph, created_at |-> 0]

MOCK_CODING_JOBS ==
    [j \in {"job1", "job2", "job3", "job4", "job5", "job6", "job7", "job8",
            "job9", "job10", "job11", "job12", "job13", "job14", "job15"} |->
       CASE j = "job1"  -> SeedJob("e1", <<SC("J18.9", 85)>>, "NEEDS_REVIEW", 85, "CAC")
         [] j = "job2"  -> SeedJob("e2", <<SC("I21.9", 99)>>, "SENT_TO_NPHIES", 99, "AUTONOMOUS")
         [] j = "job3"  -> SeedJob("e3", <<SC("K37", 92)>>, "AUTO_DROP", 92, "SEMI_AUTONOMOUS")
         [] j = "job4"  -> SeedJob("e4", <<SC("S82.90XA", 78)>>, "NEEDS_REVIEW", 78, "CAC")
         [] j = "job5"  -> SeedJob("e5", <<SC("N39.0", 81)>>, "NEEDS_REVIEW", 81, "CAC")
         [] j = "job6"  -> SeedJob("e1", << >>, "NEEDS_REVIEW", 0, "CAC")
         [] j = "job7"  -> SeedJob("e2", <<SC("R05", 95)>>, "AUTO_DROP", 95, "SEMI_AUTONOMOUS")
         [] j = "job8"  -> SeedJob("e3", <<SC("R50.9", 98)>>, "AUTO_DROP", 98, "SEMI_AUTONOMOUS")
         [] j = "job9"  -> SeedJob("e1", <<SC("E11.9", 92)>>, "AUTO_DROP", 92, "SEMI_AUTONOMOUS")
         [] j = "job10" -> SeedJob("e2", <<SC("I10", 99)>>, "SENT_TO_NPHIES", 99, "AUTONOMOUS")
         [] j = "job11" -> SeedJob("e3", <<SC("K37", 94)>>, "AUTO_DROP", 94, "SEMI_AUTONOMOUS")
         [] j = "job12" -> SeedJob("e4", <<SC("S82.90XA", 75)>>, "NEEDS_REVIEW", 75, "CAC")
         [] j = "job13" -> SeedJob("e5", <<SC("E11.9", 88), SC("I10", 91)>>, "AUTO_DROP", 90, "SEMI_AUTONOMOUS")
         [] j = "job14" -> SeedJob("e1", <<SC("J18.9", 82)>>, "NEEDS_REVIEW", 82, "CAC")
         [] j = "job15" -> SeedJob("e2", <<SC("N39.0", 84)>>, "NEEDS_REVIEW", 84, "CAC")]

\* ids of MOCK_ENCOUNTERS, in list order
MOCK_ENCOUNTERS == <<"e1", "e2", "e3", "e4", "e5">>

\* id |-> status of MOCK_CLAIMS
MOCK_CLAIMS ==
    [c \in {"cl1", "cl2", "cl3", "cl4", "cl5", "cl6", "cl7", "cl8", "cl9", "cl10"} |->
       CASE c \in {"cl1", "cl7"} -> "FC_3"
         [] c \in {"cl2", "cl8"} -> "SENT"
         [] c = "cl3" -> "REJECTED"
         [] c \in {"cl4", "cl9"} -> "NEEDS_REVIEW"
         [] OTHER -> "DRAFT"]

AuditRec(actor, action, otype, oid) ==
    [actor |-> actor, action |-> action, object_type |-> otype, object_id |-> oid]

MOCK_AUDIT_LOGS ==
    SetToBag({AuditRec("system", "claim.submitted", "claim", "cl2"),
              AuditRec("user:coder@hospital.sa", "coding_job.reviewed", "coding_job", "job1"),
              AuditRec("system", "nphies.token_refreshed", "integration", "nphies"),
              AuditRec("system", "claim.status_updated", "claim", "cl3"),
              AuditRec("user:admin@solventum.sa", "user.login", "user", "admin@solventum.sa")})

----------------------------------------------------------------------------
(* Term matcher of the enhanced ingest route.  A note is the sequence of   *)
(* its words; the regular expression \b<synonym>\b with flag i matches a   *)
(* synonym that occurs as whole words, whatever the case of its letters.   *)

Syn(words, wordChars) == [words |-> words, wordChars |-> wordChars]

\* A synonym written in Arabic script has no \w character at either end, so
\* \b cannot match next to white space or punctuation: wordChars = FALSE.
TERM_MAP ==
    << [synonyms |-> {Syn(<<"pneumonia">>, TRUE), Syn(<<"pneumonitis">>, TRUE),
                      Syn(<<"ar-sual", "ar-shadid">>, FALSE)},
        code |-> "J18.9", confidence |-> 85],
       [synonyms |-> {Syn(<<"myocardial", "infarction">>, TRUE), Syn(<<"mi">>, TRUE),
                      Syn(<<"heart", "attack">>, TRUE), Syn(<<"myocardial", "infarct">>, TRUE)},
        code |-> "I21.9", confidence |-> 99],
       [synonyms |-> {Syn(<<"appendicitis">>, TRUE), Syn(<<"appendix", "pain">>, TRUE),
                      Syn(<<"appendix", "inflammation">>, TRUE),
                      Syn(<<"ar-alam", "ar-alzaida">>, FALSE)},
        code |-> "K37", confidence |-> 95],
       [synonyms |-> {Syn(<<"uti">>, TRUE), Syn(<<"urinary", "tract", "infection">>, TRUE)},
        code |-> "N39.0", confidence |-> 80],
       [synonyms |-> {Syn(<<"fracture">>, TRUE), Syn(<<"broken", "bone">>, TRUE),
                      Syn(<<"ar-kasr">>, FALSE)},
        code |-> "S82.90XA", confidence |-> 75],
       [synonyms |-> {Syn(<<"diabetes">>, TRUE), Syn(<<"sukari">>, TRUE),
                      Syn(<<"diabetic">>, TRUE)},
        code |-> "E11.9", confidence |-> 92],
       [synonyms |-> {Syn(<<"hypertension">>, TRUE), Syn(<<"high", "blood", "pressure">>, TRUE),
                      Syn(<<"ar-daght", "ar-dam", "ar-murtafi">>, FALSE)},
        code |-> "I10", confidence |-> 98],
       [synonyms |-> {Syn(<<"cough">>, TRUE)},
        code |-> "R05", confidence |-> 95] >>

\* String.prototype.toLowerCase / the i flag, on the words the notes use
Lower(w) ==
    CASE w = "Patient" -> "patient"
      [] w = "Chest" -> "chest"
      [] w = "X-ray" -> "x-ray"
      [] w = "Myocardial" -> "myocardial"
      [] w = "STEMI" -> "stemi"
      [] w = "Hypertension" -> "hypertension"
      [] w = "I10" -> "i10"
      [] w = "Routine" -> "routine"
      [] OTHER -> w

\* the words of syn occur in note at position i, compared without case
OccursAt(note, words, i) ==
    /\ i + Len(words) - 1 <= Len(note)
    /\ \A k \in 1..Len(words) : Lower(note[i + k - 1]) = words[k]

\* re.test(clinical_note) for re = /\b<syn>\b/i
ReTest(note, syn) ==
    /\ syn.wordChars
    /\ \E i \in 1..Len(note) : OccursAt(note, syn.words, i)

\* indexes of the TERM_MAP entries with a matching synonym; every entry has
\* its own code, so seenCodes never suppresses an entry
MatchedEntries(note) ==
    {e \in 1..Len(TERM_MAP) : \E syn \in TERM_MAP[e].synonyms : ReTest(note, syn)}

Min(a, b) == IF a <= b THEN a ELSE b

\* parseFloat(Math.min(0.99, entry.confidence + jitter).toFixed(2))
ConfidenceWithVariance(base, jitter) == Min(CONFIDENCE_CAP, base + jitter)

RECURSIVE SetToSortedSeq(_)
SetToSortedSeq(S) ==
    IF S = {} THEN << >>
    ELSE LET m == CHOOSE x \in S : \A y \in S : x <= y
         IN <<m>> \o SetToSortedSeq(S \ {m})

\* suggested_codes of the enhanced route: one code per matched entry in
\* TERM_MAP order, or the single fallback code
SuggestedCodes(note, jit) ==
    LET idx == SetToSortedSeq(MatchedEntries(note))
    IN IF Len(idx) = 0
       THEN <<SC("Z00.00", FALLBACK_CONFIDENCE)>>
       ELSE [k \in 1..Len(idx) |->
               SC(TERM_MAP[idx[k]].code,
                  ConfidenceWithVariance(TERM_MAP[idx[k]].confidence, jit[idx[k]]))]

RECURSIVE SumConfidence(_)
SumConfidence(codes) ==
    IF codes = << >> THEN 0
    ELSE Head(codes).confidence + SumConfidence(Tail(codes))

\* a mean kept with one decimal, toFixed(1): the nearest tenth, in hundredths
RoundedMeans_OneDecimal(sum, n) ==
    {r \in {10 * t : t \in 0..10} : /\ 2 * n * r >= 2 * sum - 10 * n
                                    /\ 2 * n * r <= 2 * sum + 10 * n}

\* (sum / n).toFixed(2) in hundredths: the nearest hundredth; an exact half
\* is rounded on the binary value of the quotient, up for some sums and
\* down for others, so both neighbours are possible results
RoundedMeans(sum, n) ==
    {r \in 0..100 : /\ 2 * n * r >= 2 * sum - n
                    /\ 2 * n * r <= 2 * sum + n}

\* DeterminePhaseStatus with the second branch setting only the phase, so
\* that the status keeps its initial value
DeterminePhaseStatus_PhaseOnly(score, v) ==
    IF score > AUTONOMOUS_THRESHOLD /\ v = LOW_COMPLEXITY
    THEN [phase |-> "AUTONOMOUS", status |-> "SENT_TO_NPHIES"]
    ELSE IF score > SEMI_THRESHOLD
         THEN [phase |-> "SEMI_AUTONOMOUS", status |-> "NEEDS_REVIEW"]
         ELSE [phase |-> "CAC", status |-> "NEEDS_REVIEW"]

\* phase / status rule of the enhanced route (api-client.ts 153-161)
DeterminePhaseStatus(score, v) ==
    IF score > AUTONOMOUS_THRESHOLD /\ v = LOW_COMPLEXITY
    THEN [phase |-> "AUTONOMOUS", status |-> "SENT_TO_NPHIES"]
    ELSE IF score > SEMI_THRESHOLD
         THEN [phase |-> "SEMI_AUTONOMOUS", status |-> "AUTO_DROP"]
         ELSE [phase |-> "CAC", status |-> "NEEDS_REVIEW"]

----------------------------------------------------------------------------
(* Term matcher of the mock ingest route (worker/user-routes.ts 79-88)     *)

\* the terms that occur inside a word as a substring
TermsInside(w) ==
    CASE w = "coughing" -> {"cough"}
      [] w = "bronchopneumonia" -> {"pneumonia"}
      [] OTHER -> {w}

\* noteLower.includes(term) for a term of one or two words
Includes(note, term) ==
    IF Len(term) = 1
    THEN \E i \in 1..Len(note) : term[1] \in TermsInside(Lower(note[i]))
    ELSE \E i \in 1..Len(note) : OccursAt(note, term, i)

MockSuggestedCodes(note) ==
    (IF Includes(note, <<"pneumonia">>) THEN <<SC("J18.9", 85)>> ELSE << >>)
    \o (IF Includes(note, <<"myocardial", "infarction">>) THEN <<SC("I21.9", 99)>> ELSE << >>)
    \o (IF Includes(note, <<"cough">>) THEN <<SC("R05", 95)>> ELSE << >>)

\* the mock route keeps the unrounded quotient; the thresholds compare it
\* with 0.98 and 0.90, so the model keeps numerator and denominator
MockAbove(codes, threshold) ==
    /\ Len(codes) > 0
    /\ SumConfidence(codes) > threshold * Len(codes)

\* confidence_score of the mock route, 0 without codes; for every subset of
\* its three fixed confidences the quotient is a whole number of hundredths
MockScore(codes) ==
    IF Len(codes) = 0 THEN 0 ELSE SumConfidence(codes) \div Len(codes)

MockDeterminePhaseStatus(codes) ==
    IF MockAbove(codes, AUTONOMOUS_THRESHOLD)
    THEN [phase |-> "AUTONOMOUS", status |-> "SENT_TO_NPHIES"]
    ELSE IF MockAbove(codes, SEMI_THRESHOLD)
         THEN [phase |-> "SEMI_AUTONOMOUS", status |-> "AUTO_DROP"]
         ELSE [phase |-> "CAC", status |-> "NEEDS_REVIEW"]

----------------------------------------------------------------------------
(* Requests *)

\* the clinical notes a request can carry, as word sequences
NOTE_PNEUMONIA_COUGH ==
    <<"Patient", "presents", "with", "fever", "and", "cough",
      "Chest", "X-ray", "confirms", "pneumonia">>
NOTE_MI == <<"Myocardial", "infarction", "STEMI", "confirmed">>
NOTE_ROUTINE == <<"Routine", "checkup">>

Notes == {NOTE_PNEUMONIA_COUGH, NOTE_MI, NOTE_ROUTINE}

\* request bodies: clinical_note is a non-empty string, or is missing
Bodies ==
    {[isString |-> TRUE, clinical_note |-> n] : n \in Notes}
    \cup {[isString |-> FALSE, clinical_note |-> << >>]}

\* isStr(clinical_note) of core-utils
IsStr(body) == body.isString

\* the values of Math.random() * 0.10 - 0.05 the model draws, in hundredths
JitterInputs == {-JITTER_MAX, JITTER_MAX}

\* NewJobId handing out the same id to every request
NewJobId_Reused(n) == "uuid-1"

\* crypto.randomUUID(): an id no earlier request has used
NewJobId(n) == "uuid-" \o ToString(n + 1)

\* ids of accept requests: a seeded job (job2, SENT_TO_NPHIES), the ingested
\* jobs (of any status), and an id that is never stored
AcceptIds ==
    {"job2", "no-such-job"} \cup {NewJobId(n) : n \in 0..(MaxIngest - 1)}

\* the write of a handler that throws, "none" when every write succeeds
IngestFailPoints == {"none", "audit_validation", "create", "audit_ingested", "audit_submitted"}
AcceptFailPoints == {"none", "audit"}

Response(op, id, code, v, fail) ==
    [op |-> op, id |-> id, code |-> code, visit_complexity |-> v, fail |-> fail]

----------------------------------------------------------------------------
(* Entity store (worker/entities.ts and worker/core-utils.ts) *)

EmptyStore == << >>

\* Entity.ensureSeed: the seed data is written when the collection is empty
EnsureSeed(store, seed) == IF DOMAIN store = {} THEN seed ELSE store

EnsureSeedBag(log, seed) == IF log = EmptyBag THEN seed ELSE log

\* Entity.create: the record is stored under its id
Create(store, id, rec) == [k \in DOMAIN store \cup {id} |-> IF k = id THEN rec ELSE store[k]]

\* entity.exists()
Exists(store, id) == id \in DOMAIN store

\* AuditLogEntity.create with a fresh id
Log(log, rec) == log (+) SetToBag({rec})

\* number of audit records about an object
AuditCount(log, oid) ==
    LET recs == {r \in BagToSet(log) : r.object_id = oid}
        RECURSIVE Total(_)
        Total(S) == IF S = {} THEN 0
                    ELSE LET r == CHOOSE x \in S : TRUE
                         IN CopiesIn(r, log) + Total(S \ {r})
    IN Total(recs)

\* number of audit records with an action about an object
ActionCount(log, action, oid) ==
    CopiesIn(AuditRec("system", action, "coding_job", oid), log)

AcceptedRec(id) == AuditRec("user:coder@hospital.sa", "coding_job.accepted", "coding_job", id)

AcceptedTotal(log) ==
    LET recs == {r \in BagToSet(log) : r.action = "coding_job.accepted"}
        RECURSIVE Total(_)
        Total(S) == IF S = {} THEN 0
                    ELSE LET r == CHOOSE x \in S : TRUE
                         IN CopiesIn(r, log) + Total(S \ {r})
    IN Total(recs)

----------------------------------------------------------------------------
(* Clearinghouse client: the token cache                                   *)

\* the cache before the first token is fetched (self._token_data is None)
NoToken == [present |-> FALSE, expires_at |-> 0]

\* the outbound calls that can be in progress at once
Calls == {"call1", "call2"}

\* a call that has not started
IdleCall ==
    [pc |-> "idle", token |-> NoToken, attempts |-> 0, forced |-> FALSE,
     result |-> "none"]

ClientInit ==
    /\ now = 0
    /\ tokenData = NoToken
    /\ refreshLock = "none"
    /\ calls = [c \in Calls |-> IdleCall]

----------------------------------------------------------------------------
(* APR-DRG grouper (src/IMPLEMENTATION_PLAN.md, apr_drg_grouper.py)         *)
(* Weights are in ten-thousandths, lengths of stay in thousandths of a day. *)

\* the ICD-10 codes the grouper is called with
DxCodes == {"I21.9", "I50.9", "J18.9", "N18.3", "J96.0", "E11.9"}

\* the characters of a code or of a prefix, for str.startswith and dx[:3]
Chars ==
    [s \in DxCodes \cup {"I50", "N18", "E11.2", "J96", "R65", "I21", "I63",
                         "J18", "K37", "E11", "E10", "S82", "Z00.00", "Z12.1",
                         "I10", "Z00", "Z01", "Z12", "Z13"} |->
        CASE s = "I21.9" -> <<"I", "2", "1", ".", "9">>
          [] s = "I50.9" -> <<"I", "5", "0", ".", "9">>
          [] s = "J18.9" -> <<"J", "1", "8", ".", "9">>
          [] s = "N18.3" -> <<"N", "1", "8", ".", "3">>
          [] s = "J96.0" -> <<"J", "9", "6", ".", "0">>
          [] s = "E11.9" -> <<"E", "1", "1", ".", "9">>
          [] s = "E11.2" -> <<"E", "1", "1", ".", "2">>
          [] s = "I50" -> <<"I", "5", "0">>
          [] s = "N18" -> <<"N", "1", "8">>
          [] s = "J96" -> <<"J", "9", "6">>
          [] s = "R65" -> <<"R", "6", "5">>
          [] s = "I21" -> <<"I", "2", "1">>
          [] s = "I63" -> <<"I", "6", "3">>
          [] s = "J18" -> <<"J", "1", "8">>
          [] s = "K37" -> <<"K", "3", "7">>
          [] s = "E11" -> <<"E", "1", "1">>
          [] s = "E10" -> <<"E", "1", "0">>
          [] s = "S82" -> <<"S", "8", "2">>
          [] s = "Z00.00" -> <<"Z", "0", "0", ".", "0", "0">>
          [] s = "Z12.1" -> <<"Z", "1", "2", ".", "1">>
          [] s = "I10" -> <<"I", "1", "0">>
          [] s = "Z00" -> <<"Z", "0", "0">>
          [] s = "Z01" -> <<"Z", "0", "1">>
          [] s = "Z12" -> <<"Z", "1", "2">>
          [] s = "Z13" -> <<"Z", "1", "3">>]

\* dx.startswith(prefix)
StartsWith(dx, prefix) ==
    LET s == Chars[dx]
        p == Chars[prefix]
    IN /\ Len(p) <= Len(s)
       /\ SubSeq(s, 1, Len(p)) = p

\* any(dx.startswith(code) for code in prefixes)
AnyPrefix(dx, prefixes) ==
    \E i \in 1..Len(prefixes) : StartsWith(dx, prefixes[i])

mcc_prefixes == <<"I50", "N18", "E11.2", "J96", "R65">>

high_risk_conditions == <<"I21", "I63", "J96">>

\* _count_major_ccs: the loop over secondary_dx, one increment per element
\* that starts with some prefix
RECURSIVE count_major_ccs(_)
count_major_ccs(secondary_dx) ==
    IF secondary_dx = << >> THEN 0
    ELSE (IF AnyPrefix(Head(secondary_dx), mcc_prefixes) THEN 1 ELSE 0)
         + count_major_ccs(Tail(secondary_dx))

\* a severity calculation that takes the age threshold of the mortality
\* calculation (80) for the elderly
calculate_soi_Age80(principal_dx, secondary_dx, age, patient_type) ==
    LET aged == IF age < 1 \/ age > 80 THEN 2 ELSE 1
        major_cc_count == count_major_ccs(secondary_dx)
        withCcs == IF major_cc_count >= 3 THEN aged + 2
                   ELSE IF major_cc_count >= 1 THEN aged + 1
                   ELSE aged
    IN Min(withCcs, 4)

\* _calculate_soi
calculate_soi(principal_dx, secondary_dx, age, patient_type) ==
    LET base_severity == 1
        aged == IF age < 1 THEN base_severity + 1
                ELSE IF age > 75 THEN base_severity + 1
                ELSE base_severity
        major_cc_count == count_major_ccs(secondary_dx)
        withCcs == IF major_cc_count >= 3 THEN aged + 2
                   ELSE IF major_cc_count >= 1 THEN aged + 1
                   ELSE aged
    IN Min(withCcs, 4)

\* _calculate_rom
calculate_rom(principal_dx, secondary_dx, age, discharge_status) ==
    LET base_rom == 1
        risky == IF AnyPrefix(principal_dx, high_risk_conditions)
                 THEN base_rom + 1 ELSE base_rom
        aged == IF age < 1 \/ age > 80 THEN risky + 1 ELSE risky
        major_cc_count == count_major_ccs(secondary_dx)
        withCcs == IF major_cc_count >= 2 THEN aged + 1 ELSE aged
        final == IF discharge_status = "20" THEN 4 ELSE withCcs
    IN Min(final, 4)

\* _load_drg_table
drg_table ==
    [category \in {"PNEUMONIA", "MI", "APPENDICITIS", "DIABETES", "FRACTURE"} |->
        CASE category = "PNEUMONIA" ->
               [base_drg |-> "139", weights |-> <<5427, 7842, 12156, 21453>>]
          [] category = "MI" ->
               [base_drg |-> "190", weights |-> <<8234, 12456, 18934, 34521>>]
          [] category = "APPENDICITIS" ->
               [base_drg |-> "338", weights |-> <<6123, 8456, 13421, 21234>>]
          [] category = "DIABETES" ->
               [base_drg |-> "420", weights |-> <<4521, 6234, 9456, 15678>>]
          [] category = "FRACTURE" ->
               [base_drg |-> "564", weights |-> <<5678, 8123, 12345, 20123>>]]

\* a mapping that knows no prefix
get_base_drg_DefaultOnly(principal_dx) == drg_table["PNEUMONIA"]

\* _get_base_drg: the category of principal_dx[:3], PNEUMONIA by default
get_base_drg(principal_dx) ==
    LET code_prefix == SubSeq(Chars[principal_dx], 1, 3)
        category ==
            CASE code_prefix = Chars["J18"] -> "PNEUMONIA"
              [] code_prefix = Chars["I21"] -> "MI"
              [] code_prefix = Chars["K37"] -> "APPENDICITIS"
              [] code_prefix = Chars["E11"] -> "DIABETES"
              [] code_prefix = Chars["E10"] -> "DIABETES"
              [] code_prefix = Chars["S82"] -> "FRACTURE"
              [] OTHER -> "PNEUMONIA"
    IN drg_table[category]

\* _calculate_expected_los: base_los * soi_multiplier[soi] * age_adjustment
calculate_expected_los(drg_code, soi, age) ==
    LET base_los == CASE drg_code = "139" -> 35
                      [] drg_code = "190" -> 42
                      [] drg_code = "338" -> 28
                      [] drg_code = "420" -> 21
                      [] drg_code = "564" -> 45
                      [] OTHER -> 30
        soi_multiplier == <<7, 10, 14, 20>>
        age_adjustment == IF age > 75 THEN 12
                          ELSE IF age < 1 THEN 13
                          ELSE 10
    IN base_los * soi_multiplier[soi] * age_adjustment

\* APRDRGGrouper.group: the DRGResult
group(principal_diagnosis, secondary_diagnoses, age, patient_type, discharge_status) ==
    LET base_drg_info == get_base_drg(principal_diagnosis)
        soi == calculate_soi(principal_diagnosis, secondary_diagnoses, age,
                             patient_type)
        rom == calculate_rom(principal_diagnosis, secondary_diagnoses, age,
                             discharge_status)
    IN [apr_drg_code |-> base_drg_info.base_drg,
        severity_of_illness |-> soi,
        risk_of_mortality |-> rom,
        relative_weight |-> IF soi \in DOMAIN base_drg_info.weights
                            THEN base_drg_info.weights[soi] ELSE 10000,
        expected_los |-> calculate_expected_los(base_drg_info.base_drg, soi, age)]

\* the discharge status group() takes when the caller passes none
DEFAULT_DISCHARGE_STATUS == "01"

\* no DRGResult (drg_result = None)
NoDrgResult ==
    [apr_drg_code |-> "none", severity_of_illness |-> 0,
     risk_of_mortality |-> 0, relative_weight |-> 0, expected_los |-> 0]

\* max(codes, key=lambda x: x['confidence']): the first code of greatest
\* confidence
MaxByConfidence(codes) ==
    LET best == CHOOSE i \in 1..Len(codes) :
                   /\ \A j \in 1..Len(codes) :
                         codes[j].confidence <= codes[i].confidence
                   /\ \A j \in 1..(i - 1) :
                         codes[j].confidence < codes[i].confidence
    IN codes[best]

\* the age _perform_drg_grouping uses when encounter_meta has none
DEFAULT_AGE == 45

\* CodingEngine._perform_drg_grouping: the arguments it hands to group(),
\* where discharge_status is left to its default
perform_drg_grouping_args(codes, encounter_meta) ==
    LET principal_dx == MaxByConfidence(codes).code
        keep(c) == c.code # principal_dx
    IN [principal_diagnosis |-> principal_dx,
        secondary_diagnoses |->
            [i \in 1..Len(SelectSeq(codes, keep)) |->
                SelectSeq(codes, keep)[i].code],
        age |-> IF encounter_meta.has_patient_age
                THEN encounter_meta.patient_age ELSE DEFAULT_AGE,
        patient_type |-> encounter_meta.encounter_type,
        discharge_status |-> DEFAULT_DISCHARGE_STATUS]

\* no grouping call yet
NoGrouping ==
    [op |-> "none", meta_discharge_status |-> "-", grouped |-> FALSE,
     principal_diagnosis |-> "-", secondary_diagnoses |-> << >>, age |-> 0,
     discharge_status |-> "-", result |-> NoDrgResult]

----------------------------------------------------------------------------
(* EAPG grouper (src/IMPLEMENTATION_PLAN.md, eapg_grouper.py)               *)
(* Weights are in ten-thousandths.                                          *)

\* primary_procedure: CPT / HCPCS codes, "" when the encounter has none
ProcedureCodes ==
    {"", "99213", "10000", "12345", "69999", "70000", "9999", "G0101",
     "1234F", "12345-59", "123456"}

\* the characters of a procedure code
ProcChars ==
    [s \in ProcedureCodes |->
        CASE s = "" -> << >>
          [] s = "99213" -> <<"9", "9", "2", "1", "3">>
          [] s = "10000" -> <<"1", "0", "0", "0", "0">>
          [] s = "12345" -> <<"1", "2", "3", "4", "5">>
          [] s = "69999" -> <<"6", "9", "9", "9", "9">>
          [] s = "70000" -> <<"7", "0", "0", "0", "0">>
          [] s = "9999" -> <<"9", "9", "9", "9">>
          [] s = "G0101" -> <<"G", "0", "1", "0", "1">>
          [] s = "1234F" -> <<"1", "2", "3", "4", "F">>
          [] s = "12345-59" -> <<"1", "2", "3", "4", "5", "-", "5", "9">>
          [] s = "123456" -> <<"1", "2", "3", "4", "5", "6">>]

Digits == <<"0", "1", "2", "3", "4", "5", "6", "7", "8", "9">>

IsDigit(ch) == \E d \in 1..10 : Digits[d] = ch

DigitValue(ch) == (CHOOSE d \in 1..10 : Digits[d] = ch) - 1

\* int(text) raises ValueError for an empty text and for one that holds a
\* character that is no digit
IntRaises(chars) == chars = << >> \/ \E i \in 1..Len(chars) : ~IsDigit(chars[i])

\* int(text) of a text of digits
RECURSIVE IntOf(_)
IntOf(chars) ==
    IF chars = << >> THEN 0
    ELSE 10 * IntOf(SubSeq(chars, 1, Len(chars) - 1)) + DigitValue(chars[Len(chars)])

\* cpt_code[:5]
FirstFive(chars) == SubSeq(chars, 1, Min(5, Len(chars)))

\* the lowest and highest number of a procedure code
PROCEDURE_LOW == 10000
PROCEDURE_HIGH == 69999

\* _is_procedure
is_procedure(cpt_code) ==
    IF cpt_code = "" THEN FALSE
    ELSE IF IntRaises(FirstFive(ProcChars[cpt_code])) THEN FALSE
    ELSE LET code_num == IntOf(FirstFive(ProcChars[cpt_code]))
         IN PROCEDURE_LOW <= code_num /\ code_num <= PROCEDURE_HIGH

\* the highest number of a significant procedure
SIGNIFICANT_HIGH == 49999

\* _is_significant_procedure: the ranges (10000, 29999) and (30000, 49999)
is_significant_procedure(cpt_code) ==
    IF cpt_code = "" THEN FALSE
    ELSE IF IntRaises(FirstFive(ProcChars[cpt_code])) THEN FALSE
    ELSE LET code_num == IntOf(FirstFive(ProcChars[cpt_code]))
         IN \/ PROCEDURE_LOW <= code_num /\ code_num <= 29999
            \/ 30000 <= code_num /\ code_num <= SIGNIFICANT_HIGH

preventive_codes == <<"Z00", "Z01", "Z12", "Z13">>

\* _is_preventive
is_preventive(diagnoses) ==
    \E c \in 1..Len(preventive_codes), i \in 1..Len(diagnoses) :
        StartsWith(diagnoses[i], preventive_codes[c])

\* _load_eapg_table
eapg_table ==
    [entry \in {"OFFICE_VISIT", "ER_VISIT", "PREVENTIVE", "MINOR_PROCEDURE"} |->
        CASE entry = "OFFICE_VISIT" -> [code |-> "0010", base_weight |-> 1200]
          [] entry = "ER_VISIT" -> [code |-> "0620", base_weight |-> 4500]
          [] entry = "PREVENTIVE" -> [code |-> "0150", base_weight |-> 1800]
          [] entry = "MINOR_PROCEDURE" -> [code |-> "0450", base_weight |-> 3500]]

\* the weight of one ancillary service
ANCILLARY_WEIGHT == 500

\* a grouping that looks at the procedure before the diagnoses
eapg_group_ProcedureFirst(primary_procedure, diagnoses, n_ancillary, encounter_type) ==
    LET base_eapg ==
            IF encounter_type = "ED" THEN eapg_table["ER_VISIT"]
            ELSE IF is_procedure(primary_procedure)
                 THEN eapg_table["MINOR_PROCEDURE"]
            ELSE IF is_preventive(diagnoses) THEN eapg_table["PREVENTIVE"]
            ELSE eapg_table["OFFICE_VISIT"]
        ancillary_weight == n_ancillary * ANCILLARY_WEIGHT
    IN [eapg_code |-> base_eapg.code,
        significant_procedure |-> is_significant_procedure(primary_procedure),
        ancillary_weight |-> ancillary_weight,
        relative_weight |-> base_eapg.base_weight + ancillary_weight]

\* EAPGGrouper.group: the EAPGResult; n_ancillary is len(ancillary_services)
eapg_group(primary_procedure, diagnoses, n_ancillary, encounter_type) ==
    LET base_eapg ==
            IF encounter_type = "ED" THEN eapg_table["ER_VISIT"]
            ELSE IF is_preventive(diagnoses) THEN eapg_table["PREVENTIVE"]
            ELSE IF is_procedure(primary_procedure)
                 THEN eapg_table["MINOR_PROCEDURE"]
            ELSE eapg_table["OFFICE_VISIT"]
        ancillary_weight == n_ancillary * ANCILLARY_WEIGHT
    IN [eapg_code |-> base_eapg.code,
        significant_procedure |-> is_significant_procedure(primary_procedure),
        ancillary_weight |-> ancillary_weight,
        relative_weight |-> base_eapg.base_weight + ancillary_weight]

\* no EAPGResult
NoEapgResult ==
    [eapg_code |-> "none", significant_procedure |-> FALSE,
     ancillary_weight |-> 0, relative_weight |-> 0]

----------------------------------------------------------------------------
(* Worklist prioritizer (src/IMPLEMENTATION_PLAN.md, worklist_prioritizer.py) *)
(* Scores are in hundredths of a point, revenues in thousands, dates in days. *)

\* datetime.now(), as a day number
Today == 100

\* min(math.log10(days_old + 1) / math.log10(31), 1.0) * 10, rounded to
\* hundredths, for days_old = 0, 1, ..., 29; 10.00 from 30 days on
AGING_TABLE ==
    <<0, 202, 320, 404, 469, 522, 567, 606, 640, 671, 698, 724, 747, 769, 789,
      807, 825, 842, 857, 872, 887, 900, 913, 925, 937, 949, 960, 970, 981,
      990>>

\* encounters: encounter_id |-> encounter data; "e9" is in no encounter
Encounters ==
    [e \in {"e1", "e2", "e3"} |->
        CASE e = "e1" -> [estimated_revenue |-> 25, has_admission_dt |-> TRUE,
                          admission_dt |-> 40]
          [] e = "e2" -> [estimated_revenue |-> 25, has_admission_dt |-> TRUE,
                          admission_dt |-> 60]
          [] e = "e3" -> [estimated_revenue |-> 75, has_admission_dt |-> TRUE,
                          admission_dt |-> 95]]

EncounterIds == {"e1", "e2", "e3", "e9"}

\* encounters.get(encounter_id, {})
GetEncounter(encounter_id) ==
    IF encounter_id \in DOMAIN Encounters THEN Encounters[encounter_id]
    ELSE [estimated_revenue |-> 0, has_admission_dt |-> FALSE,
          admission_dt |-> 0]

\* calculate_opportunity_score
calculate_opportunity_score(coding_job, encounter) ==
    LET confidence_gap == (100 - coding_job.confidence_score) * 30
        potential_cmi_impact == Min(coding_job.n_suggested_codes, 5) * 800
        revenue_factor == Min(encounter.estimated_revenue, 100) * 20
        days_old == Today - encounter.admission_dt
        aging_factor == IF encounter.has_admission_dt
                        THEN (IF days_old >= 30 THEN 1000
                              ELSE AGING_TABLE[days_old + 1])
                        ELSE 0
    IN confidence_gap + potential_cmi_impact + revenue_factor + aging_factor

\* where sorted(..., reverse=True) puts x in a list already sorted: after the
\* elements of greater or equal key, so equal keys keep their input order
InsertByScore(s, x) ==
    LET k == Cardinality({i \in 1..Len(s) :
                             s[i].opportunity_score >= x.opportunity_score})
    IN SubSeq(s, 1, k) \o <<x>> \o SubSeq(s, k + 1, Len(s))

\* sorted(coding_jobs, key=lambda x: x['opportunity_score'], reverse=True)
RECURSIVE sorted_jobs(_)
sorted_jobs(coding_jobs) ==
    IF coding_jobs = << >> THEN << >>
    ELSE InsertByScore(sorted_jobs(SubSeq(coding_jobs, 1, Len(coding_jobs) - 1)),
                       coding_jobs[Len(coding_jobs)])

\* prioritize_worklist: the score is written into every job, then the sort
prioritize_worklist(coding_jobs) ==
    sorted_jobs([i \in 1..Len(coding_jobs) |->
        [id |-> coding_jobs[i].id,
         encounter_id |-> coding_jobs[i].encounter_id,
         confidence_score |-> coding_jobs[i].confidence_score,
         n_suggested_codes |-> coding_jobs[i].n_suggested_codes,
         opportunity_score |->
            calculate_opportunity_score(coding_jobs[i],
                GetEncounter(coding_jobs[i].encounter_id))]])

\* math.log10(days_old + 1) raises ValueError (math domain error) when the
\* admission date is after datetime.now(): days_old is then -1 or less
OpportunityScoreRaises(encounter) ==
    /\ encounter.has_admission_dt
    /\ Today - encounter.admission_dt + 1 <= 0

\* no calculate_opportunity_score call yet
NoScoring ==
    [called |-> FALSE, confidence_score |-> 0, n_suggested_codes |-> 0,
     encounter |-> [estimated_revenue |-> 0, has_admission_dt |-> FALSE,
                    admission_dt |-> 0],
     raised |-> FALSE, score |-> 0]

\* no KPI calculation yet
NoKpi == [fn |-> "none", input |-> << >>, raised |-> FALSE, value |-> 0]

\* no run of the engine with both groupers yet
NoEngineRun ==
    [called |-> FALSE, encounter_type |-> "-", suggested_codes |-> << >>,
     raised |-> FALSE, drg_ran |-> FALSE, eapg_ran |-> FALSE,
     principal_diagnosis |-> "-", secondary_diagnoses |-> << >>,
     apr_drg |-> NoDrgResult, eapg |-> NoEapgResult]

\* clients of the error-report route: the CF-Connecting-IP header of a report,
\* or no such header
NoHeader == "(no header)"

ConnectingIPs == {"203.0.113.7", NoHeader}

\* last minute (Math.floor(now / 60000)) the clock reaches
MaxMinute == 3

\* reports sent in one behaviour
MaxReports == 13

\* `${clientIP}:${minute}`
LimitKeys == {"203.0.113.7", "unknown"} \X (0..MaxMinute)

\* the worker has answered no error report: errorReportLimits is an empty Map
\* (a missing key and a count of 0 read the same: get(key) || 0)
NoReports ==
    [errorReportLimits |-> [k \in LimitKeys |-> 0], minute |-> 0,
     succeeded |-> [k \in LimitKeys |-> 0], reports |-> 0, status |-> 0]

\* no GET /api/claims request yet
NoListing ==
    [started |-> FALSE, status |-> "-", limit |-> 0, order |-> << >>,
     next |-> 0, returned |-> << >>, pages |-> 0, finished |-> FALSE]

\* reconcile-batch requests the worker handles at the same time
Batches == {"batch1", "batch2"}

\* a request slot the worker is not handling
IdleBatch == [pc |-> "idle", unreconciled |-> << >>, patched |-> 0, flips |-> 0]

\* the payment collection before seeding, no reconcile-batch request yet
NoReconciliation ==
    [payments |-> << >>, batch |-> [b \in Batches |-> IdleBatch], requests |-> 0,
     reported |-> 0, changed |-> {}]

\* no EAPG grouping call yet
NoEapgCall ==
    [called |-> FALSE, primary_procedure |-> "", diagnoses |-> << >>,
     n_ancillary_services |-> 0, encounter_type |-> "-", result |-> NoEapgResult]

\* no prioritize_worklist call yet
NoWorklist == [input |-> << >>, output |-> << >>, called |-> FALSE]

ToolsInit ==
    /\ grouping = NoGrouping
    /\ worklist = NoWorklist
    /\ scoring = NoScoring
    /\ kpi = NoKpi
    /\ engineRun = NoEngineRun
    /\ eapg = NoEapgCall
    /\ limiter = NoReports
    /\ listing = NoListing
    /\ recon = NoReconciliation

----------------------------------------------------------------------------
(* State machine *)

Init ==
    /\ ClientInit
    /\ ToolsInit
    /\ jobs = EmptyStore
    /\ audit = EmptyBag
    /\ claims = EmptyStore
    /\ encounters = << >>
    /\ clock = 0
    /\ last = Response("init", "-", 0, "-", "none")

\* entity.patch({ status: 'AUTO_DROP' }): the other fields are kept
PatchStatus(store, id, st) == [store EXCEPT ![id].status = st]

\* GET /api/coding-jobs: seeds every collection, returns a page; last keeps
\* the latest ingest or accept request
GetCodingJobs ==
    /\ UNCHANGED exceptWorker
    /\ jobs' = EnsureSeed(jobs, MOCK_CODING_JOBS)
    /\ audit' = EnsureSeedBag(audit, MOCK_AUDIT_LOGS)
    /\ claims' = EnsureSeed(claims, MOCK_CLAIMS)
    /\ encounters' = IF encounters = << >> THEN MOCK_ENCOUNTERS ELSE encounters
    /\ UNCHANGED <<clock, last>>

\* the audit log after the catch block of the enhanced ingest route (its own
\* write is taken to succeed)
IngestCatch(log, jobId) ==
    Log(log, AuditRec("system", "note.ingestion_failed", "coding_job", jobId))

\* POST /api/ingest-note, enhanced route
IngestNote(body, v, fail) ==
    /\ UNCHANGED exceptWorker
    /\ clock < MaxIngest
    /\ clock' = clock + 1
    /\ claims' = EnsureSeed(claims, MOCK_CLAIMS)
    /\ encounters' = IF encounters = << >> THEN MOCK_ENCOUNTERS ELSE encounters
    /\ LET jobId == NewJobId(clock)
           seededJobs == EnsureSeed(jobs, MOCK_CODING_JOBS)
           seededLog == EnsureSeedBag(audit, MOCK_AUDIT_LOGS)
           code == IF fail = "none" THEN 200 ELSE 400
       IN IF ~IsStr(body)
          THEN /\ fail \in {"none", "audit_validation"}
               /\ jobs' = seededJobs
               /\ audit' = IngestCatch(seededLog, jobId)
               /\ last' = Response("ingest", jobId, 400, v, fail)
          ELSE \E jit \in [MatchedEntries(body.clinical_note) -> JitterInputs] :
               LET codes == SuggestedCodes(body.clinical_note, jit)
               IN \E score \in RoundedMeans(SumConfidence(codes), Len(codes)) :
                  LET ps == DeterminePhaseStatus(score, v)
                      newJob == [encounter_id |-> encounters'[1],
                                 suggested_codes |-> codes,
                                 status |-> ps.status,
                                 confidence_score |-> score,
                                 phase |-> ps.phase,
                                 created_at |-> clock']
                      stored == fail # "create"
                      ingested == fail \notin {"create", "audit_ingested"}
                      submitted == ps.status = "SENT_TO_NPHIES" /\ fail = "none"
                      log1 == IF ingested
                              THEN Log(seededLog, AuditRec("system", "note.ingested", "coding_job", jobId))
                              ELSE seededLog
                      log2 == IF submitted
                              THEN Log(log1, AuditRec("system", "claim.submitted_to_nphies", "coding_job", jobId))
                              ELSE log1
                  IN /\ fail # "audit_validation"
                     /\ fail = "audit_submitted" => ps.status = "SENT_TO_NPHIES"
                     /\ jobs' = IF stored THEN Create(seededJobs, jobId, newJob) ELSE seededJobs
                     /\ audit' = IF fail = "none" THEN log2 ELSE IngestCatch(log2, jobId)
                     /\ last' = Response("ingest", jobId, code, v, fail)

\* IngestNoteMock testing the note only after the job was created
IngestNoteMock_ValidateLate(body, v, fail) ==
    /\ UNCHANGED exceptWorker
    /\ clock < MaxIngest
    /\ clock' = clock + 1
    /\ UNCHANGED <<claims, encounters>>
    /\ LET jobId == NewJobId(clock)
           codes == MockSuggestedCodes(body.clinical_note)
           ps == MockDeterminePhaseStatus(codes)
           newJob == [encounter_id |-> IF Len(encounters) > 0 THEN encounters[1] ELSE "e_mock",
                      suggested_codes |-> codes,
                      status |-> ps.status,
                      confidence_score |-> MockScore(codes),
                      phase |-> ps.phase,
                      created_at |-> clock']
       IN /\ fail \in {"none", "create", "audit_ingested"}
          /\ ~IsStr(body) => fail = "none"
          /\ jobs' = IF fail # "create" THEN Create(jobs, jobId, newJob) ELSE jobs
          /\ audit' = IF fail = "none" /\ IsStr(body)
                      THEN Log(audit, AuditRec("system", "note.ingested", "coding_job", jobId))
                      ELSE audit
          /\ last' = Response("ingest_mock", jobId,
                              IF ~IsStr(body) THEN 400 ELSE IF fail = "none" THEN 200 ELSE 500,
                              v, fail)

\* POST /api/ingest-note, mock route of worker/user-routes.ts: no seeding,
\* no catch block (a throw is answered 500 by onError); the route never
\* reads the visit_complexity v of the request
IngestNoteMock(body, v, fail) ==
    /\ UNCHANGED exceptWorker
    /\ clock < MaxIngest
    /\ clock' = clock + 1
    /\ UNCHANGED <<claims, encounters>>
    /\ LET jobId == NewJobId(clock)
       IN IF ~IsStr(body)
          THEN /\ fail = "none"
               /\ UNCHANGED <<jobs, audit>>
               /\ last' = Response("ingest_mock", jobId, 400, v, fail)
          ELSE LET codes == MockSuggestedCodes(body.clinical_note)
                   ps == MockDeterminePhaseStatus(codes)
                   newJob == [encounter_id |-> IF Len(encounters) > 0 THEN encounters[1] ELSE "e_mock",
                              suggested_codes |-> codes,
                              status |-> ps.status,
                              confidence_score |-> MockScore(codes),
                              phase |-> ps.phase,
                              created_at |-> clock']
               IN /\ fail \in {"none", "create", "audit_ingested"}
                  /\ jobs' = IF fail # "create" THEN Create(jobs, jobId, newJob) ELSE jobs
                  /\ audit' = IF fail = "none"
                              THEN Log(audit, AuditRec("system", "note.ingested", "coding_job", jobId))
                              ELSE audit
                  /\ last' = Response("ingest_mock", jobId, IF fail = "none" THEN 200 ELSE 500, v, fail)

\* Accept recomputing the phase along with the status
Accept_Recompute(id, fail) ==
    /\ UNCHANGED exceptWorker
    /\ AcceptedTotal(audit) < MaxAccept
    /\ UNCHANGED <<claims, encounters, clock>>
    /\ IF ~Exists(jobs, id)
       THEN /\ fail = "none"
            /\ UNCHANGED <<jobs, audit>>
            /\ last' = Response("accept", id, 404, "-", fail)
       ELSE /\ jobs' = [jobs EXCEPT ![id].status = "AUTO_DROP", ![id].phase = "SEMI_AUTONOMOUS"]
            /\ audit' = IF fail = "none" THEN Log(audit, AcceptedRec(id)) ELSE audit
            /\ last' = Response("accept", id, IF fail = "none" THEN 200 ELSE 500, "-", fail)

\* Accept answering with success without writing its audit record
Accept_NoAudit(id, fail) ==
    /\ UNCHANGED exceptWorker
    /\ AcceptedTotal(audit) < MaxAccept
    /\ UNCHANGED <<claims, encounters, clock, audit>>
    /\ IF ~Exists(jobs, id)
       THEN /\ fail = "none"
            /\ UNCHANGED jobs
            /\ last' = Response("accept", id, 404, "-", fail)
       ELSE /\ jobs' = PatchStatus(jobs, id, "AUTO_DROP")
            /\ last' = Response("accept", id, IF fail = "none" THEN 200 ELSE 500, "-", fail)

\* POST /api/coding-jobs/:id/accept
Accept(id, fail) ==
    /\ UNCHANGED exceptWorker
    /\ AcceptedTotal(audit) < MaxAccept
    /\ UNCHANGED <<claims, encounters, clock>>
    /\ IF ~Exists(jobs, id)
       THEN /\ fail = "none"
            /\ UNCHANGED <<jobs, audit>>
            /\ last' = Response("accept", id, 404, "-", fail)
       ELSE /\ jobs' = PatchStatus(jobs, id, "AUTO_DROP")
            /\ audit' = IF fail = "none" THEN Log(audit, AcceptedRec(id)) ELSE audit
            /\ last' = Response("accept", id, IF fail = "none" THEN 200 ELSE 500, "-", fail)

Next ==
    \/ GetCodingJobs
    \/ \E body \in Bodies, v \in VisitComplexities, fail \in IngestFailPoints :
          IngestNote(body, v, fail)
    \/ \E body \in Bodies, v \in VisitComplexities, fail \in IngestFailPoints :
          IngestNoteMock(body, v, fail)
    \/ \E id \in AcceptIds, fail \in AcceptFailPoints : Accept(id, fail)

Spec == Init /\ [][Next]_vars

----------------------------------------------------------------------------
(* Clearinghouse rejection (spec section 7, ClearinghouseRejection): the   *)
(* job moves to REJECTED from whatever state and one audit event is        *)
(* emitted.  The worker under src/ has no code for it.                     *)

RejectedRec(id) == AuditRec("system", "claim.rejected", "coding_job", id)

RejectedTotal(log) ==
    LET recs == {r \in BagToSet(log) : r.action = "claim.rejected"}
        RECURSIVE Total(_)
        Total(S) == IF S = {} THEN 0
                    ELSE LET r == CHOOSE x \in S : TRUE
                         IN CopiesIn(r, log) + Total(S \ {r})
    IN Total(recs)

ClearinghouseReject(id) ==
    /\ UNCHANGED exceptWorker
    /\ Exists(jobs, id)
    /\ jobs[id].status # "REJECTED"
    /\ RejectedTotal(audit) < MaxReject
    /\ jobs' = PatchStatus(jobs, id, "REJECTED")
    /\ audit' = Log(audit, RejectedRec(id))
    /\ last' = Response("reject", id, 200, "-", "none")
    /\ UNCHANGED <<claims, encounters, clock>>

\* the jobs whose claim the clearinghouse rejects: a seeded job that was
\* submitted, and the first ingested job, whatever its status
RejectIds == {"job2", NewJobId(0)}

\* the enhanced routes together with rejections
NextReject ==
    \/ GetCodingJobs
    \/ \E body \in Bodies, v \in VisitComplexities, fail \in IngestFailPoints :
          IngestNote(body, v, fail)
    \/ \E id \in AcceptIds, fail \in AcceptFailPoints : Accept(id, fail)
    \/ \E id \in RejectIds : ClearinghouseReject(id)

SpecReject == Init /\ [][NextReject]_vars

----------------------------------------------------------------------------
(* Steps, as the properties below recognise them *)

IngestOps == {"ingest", "ingest_mock"}

\* this step handles an ingest request: the request counter advances
IngestStep == clock' = clock + 1

\* this step handles an accept request for id (a seeding GET, the only other
\* step that keeps an accept in last, changes encounters)
AcceptStep(id) ==
    /\ last'.op = "accept"
    /\ last'.id = id
    /\ encounters' = encounters

SubmittedCount(log, id) == ActionCount(log, "claim.submitted_to_nphies", id)

\* the status the state list pairs with a phase
PairedStatus(phase) ==
    CASE phase = "CAC" -> "NEEDS_REVIEW"
      [] phase = "SEMI_AUTONOMOUS" -> "AUTO_DROP"
      [] phase = "AUTONOMOUS" -> "SENT_TO_NPHIES"

----------------------------------------------------------------------------
(* C1 *)

\* C1: every job an ingest request stores has (phase, status) =
\* (AUTONOMOUS, SENT_TO_NPHIES) if its confidence_score > 0.98 and the
\* request's visit_complexity is low-complexity outpatient, otherwise
\* (SEMI_AUTONOMOUS, AUTO_DROP) if the score > 0.90, otherwise
\* (CAC, NEEDS_REVIEW); so no job is AUTONOMOUS without the low-complexity flag.
C1_PhaseStatusRule ==
    (last.op \in IngestOps /\ Exists(jobs, last.id)) =>
        LET job == jobs[last.id]
            s == job.confidence_score
            v == last.visit_complexity
        IN /\ (s > 98 /\ v = LOW_COMPLEXITY) =>
                (job.phase = "AUTONOMOUS" /\ job.status = "SENT_TO_NPHIES")
           /\ (~(s > 98 /\ v = LOW_COMPLEXITY) /\ s > 90) =>
                (job.phase = "SEMI_AUTONOMOUS" /\ job.status = "AUTO_DROP")
           /\ (~(s > 98 /\ v = LOW_COMPLEXITY) /\ ~(s > 90)) =>
                (job.phase = "CAC" /\ job.status = "NEEDS_REVIEW")

----------------------------------------------------------------------------
(* C2 *)

----------------------------------------------------------------------------
(* C3 *)

\* C3: no accept call changes the status of a job whose status is AUTO_DROP
\* or SENT_TO_NPHIES; a SENT_TO_NPHIES job never goes back to AUTO_DROP.
C3_AcceptOnlyFromNeedsReview ==
    [][\A id \in DOMAIN jobs :
          (AcceptStep(id) /\ jobs[id].status \in {"AUTO_DROP", "SENT_TO_NPHIES"})
              => jobs'[id].status = jobs[id].status]_vars

----------------------------------------------------------------------------
(* C4 *)

\* C4: a successful accept call on a stored job whose status is NEEDS_REVIEW
\* sets that job's status to AUTO_DROP; its encounter_id, suggested_codes,
\* confidence_score, phase and created_at are unchanged, no job is added or
\* removed (ids are the keys) and every other job is unchanged.
C4_AcceptFrame ==
    [][\A id \in DOMAIN jobs :
          (AcceptStep(id) /\ last'.code = 200 /\ jobs[id].status = "NEEDS_REVIEW")
              => /\ DOMAIN jobs' = DOMAIN jobs
                 /\ jobs'[id].status = "AUTO_DROP"
                 /\ jobs'[id].encounter_id = jobs[id].encounter_id
                 /\ jobs'[id].suggested_codes = jobs[id].suggested_codes
                 /\ jobs'[id].confidence_score = jobs[id].confidence_score
                 /\ jobs'[id].phase = jobs[id].phase
                 /\ jobs'[id].created_at = jobs[id].created_at
                 /\ \A other \in DOMAIN jobs \ {id} : jobs'[other] = jobs[other]]_vars

\* a job created CAC / NEEDS_REVIEW has been accepted with success
C4_Witness ==
    /\ last.op = "accept" /\ last.code = 200
    /\ Exists(jobs, last.id)
    /\ jobs[last.id].phase = "CAC" /\ jobs[last.id].status = "AUTO_DROP"
    /\ jobs[last.id].suggested_codes # << >>

----------------------------------------------------------------------------
(* C5 *)

\* C5: an accept call for an id that is not stored, or for a job whose
\* status is REJECTED, returns an error, changes no job and appends no
\* audit record.
C5_AcceptErrors ==
    [][\A id \in AcceptIds :
          (AcceptStep(id) /\ (~Exists(jobs, id) \/ jobs[id].status = "REJECTED"))
              => (last'.code # 200 /\ jobs' = jobs /\ audit' = audit)]_vars

----------------------------------------------------------------------------
(* C6 *)

----------------------------------------------------------------------------
(* C7 *)

\* C7: when the submission of an autonomous-qualifying job fails, the job
\* is not stored with status SENT_TO_NPHIES and no Claim record is created.
C7_NoPartialTransition ==
    (last.op = "ingest" /\ last.fail = "audit_submitted")
        => /\ ~(Exists(jobs, last.id) /\ jobs[last.id].status = "SENT_TO_NPHIES")
           /\ ~Exists(claims, last.id)

----------------------------------------------------------------------------
(* C8 *)

\* C8: once a job's status is REJECTED it never changes.
C8_RejectedIsTerminal ==
    [][\A id \in DOMAIN jobs :
          jobs[id].status = "REJECTED" => jobs'[id].status = "REJECTED"]_vars

----------------------------------------------------------------------------
(* C9 *)

----------------------------------------------------------------------------
(* C10 *)

\* C10: when the audit write of an ingest or accept fails, the job is still
\* persisted (its status still updated) and the call returns a success.
C10_AuditFailureDoesNotBlock ==
    (last.op \in IngestOps \cup {"accept"}
        /\ last.fail \in {"audit_ingested", "audit_submitted", "audit"})
        => /\ Exists(jobs, last.id)
           /\ last.op = "accept" => jobs[last.id].status = "AUTO_DROP"
           /\ last.code = 200

----------------------------------------------------------------------------
(* C11 *)

\* this step handles an ingest request whose clinical_note is missing or
\* not a string: the validation answer 400 with no write of the valid path
\* failing (the catch block answers 400 too when the write of the
\* note.ingestion_failed record throws)
InvalidIngestStep ==
    /\ IngestStep
    /\ last'.code = 400
    /\ last'.fail \in {"none", "audit_validation"}

\* C11 as stated: an ingest request whose clinical_note is missing or not
\* a string leaves the set of stored jobs exactly as it was before.
C11_InvalidNoteKeepsJobs ==
    [][InvalidIngestStep => jobs' = jobs]_vars

\* C11 amended: an ingest request whose clinical_note is missing or not a
\* string is answered with an error and creates no CodingJob: no job is
\* stored under the request's id, every stored job is unchanged, and the
\* only jobs added are the seed jobs, which the enhanced route writes
\* before validating when the store is still empty.
C11_InvalidNoteCreatesNoJob ==
    [][InvalidIngestStep =>
          /\ ~Exists(jobs', last'.id)
          /\ \A id \in DOMAIN jobs : Exists(jobs', id) /\ jobs'[id] = jobs[id]
          /\ jobs' \in {jobs, EnsureSeed(jobs, MOCK_CODING_JOBS)}
          /\ last'.op = "ingest_mock" => jobs' = jobs]_vars

\* an invalid request answered 400 after an earlier request created a job:
\* that job is stored, none is stored for the invalid request
C11_Witness ==
    /\ last.op \in IngestOps /\ last.code = 400 /\ last.fail = "none"
    /\ last.id = NewJobId(1)
    /\ Exists(jobs, NewJobId(0))
    /\ ~Exists(jobs, NewJobId(1))
    /\ ActionCount(audit, "note.ingested", NewJobId(1)) = 0

----------------------------------------------------------------------------
(* C12 *)

\* C12: every job an ingest request created has a non-empty suggested_codes
\* list, every suggested code's confidence c satisfies 0 < c <= 0.99, and a
\* list holding the fallback code is exactly that one code at 0.50.
C12_CodesNonEmptyInRange ==
    \A n \in 0..(MaxIngest - 1) :
        Exists(jobs, NewJobId(n)) =>
            LET codes == jobs[NewJobId(n)].suggested_codes
            IN /\ Len(codes) > 0
               /\ \A i \in 1..Len(codes) :
                     0 < codes[i].confidence /\ codes[i].confidence <= CONFIDENCE_CAP
               /\ (\E i \in 1..Len(codes) : codes[i].code = "Z00.00")
                     => codes = <<SC("Z00.00", FALLBACK_CONFIDENCE)>>

----------------------------------------------------------------------------
(* C13 *)

HasCode(codes, code) == \E i \in 1..Len(codes) : codes[i].code = code

\* C13: a job ingested from the note "Patient presents with fever and
\* cough. Chest X-ray confirms pneumonia." (the only note of the model that
\* yields the pneumonia code J18.9) has the pneumonia code and the cough
\* code R05, a confidence_score that is the mean of its codes' confidences
\* to two decimals and not above 0.90, and phase CAC.
C13_PneumoniaCoughIsCAC ==
    \A n \in 0..(MaxIngest - 1) :
        (Exists(jobs, NewJobId(n)) /\ HasCode(jobs[NewJobId(n)].suggested_codes, "J18.9")) =>
            LET job == jobs[NewJobId(n)]
                codes == job.suggested_codes
            IN /\ HasCode(codes, "R05")
               /\ job.confidence_score \in RoundedMeans(SumConfidence(codes), Len(codes))
               /\ job.confidence_score <= SEMI_THRESHOLD
               /\ job.phase = "CAC"

----------------------------------------------------------------------------
(* Clearinghouse client: outbound calls (NphiesConnector)                  *)

\* number of 30-second clock ticks
MaxTicks == 4

\* the 60 s buffer of the token cache
TOKEN_BUFFER == 60

\* attempts of one call on 5xx, network errors and timeouts
MAX_ATTEMPTS == 3

\* expires_in of the tokens the token endpoint issues, in seconds
ExpiresIn == {120}

\* answers to one HTTP attempt; "5xx" stands for 5xx, network error, timeout
Responses == {"ok", "5xx", "4xx"}

\* TokenFresh reusing any cached token, whatever its expiry
TokenFresh_PresentOnly(td, t) == td.present

\* TokenFresh reusing a token that expires exactly at the end of the buffer
TokenFresh_Inclusive(td, t) == td.present /\ td.expires_at >= t + TOKEN_BUFFER

\* if self._token_data and self._token_data.get("expires_at", 0) > now + 60
TokenFresh(td, t) == td.present /\ td.expires_at > t + TOKEN_BUFFER

\* LockFree with no critical section at all
LockFree_Always(c) == TRUE

\* the refresh critical section can be entered
LockFree(c) == refreshLock = "none"

SetCall(c, rec) == [calls EXCEPT ![c] = rec]

\* an outbound call starts: it needs a token first
StartCall(c) ==
    /\ calls[c].pc = "idle"
    /\ calls' = SetCall(c, [calls[c] EXCEPT !.pc = "get_token"])
    /\ UNCHANGED <<now, tokenData, refreshLock>>
    /\ UNCHANGED exceptClient

\* _get_oauth_token: the cached token is returned when it is fresh;
\* otherwise the call enters the critical section and starts a refresh, or
\* waits while another call holds it
GetToken(c) ==
    /\ calls[c].pc = "get_token"
    /\ IF TokenFresh(tokenData, now)
       THEN /\ calls' = SetCall(c, [calls[c] EXCEPT !.pc = "send", !.token = tokenData])
            /\ UNCHANGED refreshLock
       ELSE /\ LockFree(c)
            /\ refreshLock' = c
            /\ calls' = SetCall(c, [calls[c] EXCEPT !.pc = "refreshing"])
    /\ UNCHANGED <<now, tokenData>>
    /\ UNCHANGED exceptClient

\* the token endpoint answers: the new token is cached and handed to the call
RefreshOk(c, expires_in) ==
    /\ calls[c].pc = "refreshing"
    /\ tokenData' = [present |-> TRUE, expires_at |-> now + expires_in]
    /\ refreshLock' = "none"
    /\ calls' = SetCall(c, [calls[c] EXCEPT !.pc = "send", !.token = tokenData'])
    /\ UNCHANGED now
    /\ UNCHANGED exceptClient

\* the token endpoint fails: AuthError, the call is aborted
RefreshFail(c) ==
    /\ calls[c].pc = "refreshing"
    /\ refreshLock' = "none"
    /\ calls' = SetCall(c, [calls[c] EXCEPT !.pc = "done", !.result = "auth_error"])
    /\ UNCHANGED <<now, tokenData>>
    /\ UNCHANGED exceptClient

\* Send retrying every 5xx answer, with no budget
Send_NoBudget(c, resp) ==
    /\ calls[c].pc = "send"
    /\ LET n == calls[c].attempts + 1
           sent == [calls[c] EXCEPT !.attempts = n]
       IN calls' = SetCall(c,
            CASE resp = "ok" -> [sent EXCEPT !.pc = "done", !.result = "ok"]
              [] resp = "5xx" -> sent
              [] resp = "4xx" ->
                   IF ~calls[c].forced
                   THEN [sent EXCEPT !.pc = "force_refresh", !.forced = TRUE]
                   ELSE [sent EXCEPT !.pc = "done", !.result = "rejected"])
    /\ UNCHANGED <<now, tokenData, refreshLock>>
    /\ UNCHANGED exceptClient

\* one HTTP attempt and its answer
Send(c, resp) ==
    /\ calls[c].pc = "send"
    /\ LET n == calls[c].attempts + 1
           sent == [calls[c] EXCEPT !.attempts = n]
       IN calls' = SetCall(c,
            CASE resp = "ok" -> [sent EXCEPT !.pc = "done", !.result = "ok"]
              [] resp = "5xx" ->
                   IF ~calls[c].forced /\ n < MAX_ATTEMPTS
                   THEN sent
                   ELSE [sent EXCEPT !.pc = "done", !.result = "submission_failed"]
              [] resp = "4xx" ->
                   IF ~calls[c].forced
                   THEN [sent EXCEPT !.pc = "force_refresh", !.forced = TRUE]
                   ELSE [sent EXCEPT !.pc = "done", !.result = "rejected"])
    /\ UNCHANGED <<now, tokenData, refreshLock>>
    /\ UNCHANGED exceptClient

\* the forced refresh after a 4xx answer: a refresh whatever the expiry
ForceRefresh(c) ==
    /\ calls[c].pc = "force_refresh"
    /\ LockFree(c)
    /\ refreshLock' = c
    /\ calls' = SetCall(c, [calls[c] EXCEPT !.pc = "refreshing"])
    /\ UNCHANGED <<now, tokenData>>
    /\ UNCHANGED exceptClient

\* 30 seconds pass
Tick ==
    /\ now < 30 * MaxTicks
    /\ now' = now + 30
    /\ UNCHANGED <<tokenData, refreshLock, calls>>
    /\ UNCHANGED exceptClient

NextClient ==
    \/ \E c \in Calls : StartCall(c)
    \/ \E c \in Calls : GetToken(c)
    \/ \E c \in Calls, e \in ExpiresIn : RefreshOk(c, e)
    \/ \E c \in Calls : RefreshFail(c)
    \/ \E c \in Calls, resp \in Responses : Send(c, resp)
    \/ \E c \in Calls : ForceRefresh(c)
    \/ Tick

SpecClient == Init /\ [][NextClient]_clientVars

----------------------------------------------------------------------------
(* C14 *)

\* C14: a call that asks for the token reuses the cached one if and only if
\* a token is cached and its expires_at > now + 60 s, leaving cache and lock
\* alone; when no token is cached or expires_at <= now + 60 s (exactly
\* now + 60 s included) it starts a refresh before it sends anything.
C14_ReuseIffFresh ==
    [][\A c \in Calls :
          (calls[c].pc = "get_token" /\ calls'[c].pc # "get_token") =>
             IF tokenData.present /\ tokenData.expires_at > now + 60
             THEN /\ calls'[c].pc = "send"
                  /\ calls'[c].token = tokenData
                  /\ tokenData' = tokenData
                  /\ refreshLock' = refreshLock
             ELSE /\ calls'[c].pc = "refreshing"
                  /\ refreshLock' = c
                  /\ calls'[c].attempts = 0]_clientVars

\* a token cached with expires_at = now + 60 s exactly: one call carries it
\* from an earlier moment, the other has found it due and is refreshing
C14_Witness ==
    /\ tokenData.present
    /\ tokenData.expires_at = now + 60
    /\ \E c, d \in Calls :
          /\ calls[c].pc = "refreshing" /\ ~calls[c].forced
          /\ calls[d].token = tokenData /\ calls[d].result = "ok"

----------------------------------------------------------------------------
(* C15 *)

Refreshing == {c \in Calls : calls[c].pc = "refreshing"}

----------------------------------------------------------------------------
(* C16 *)

\* C16: whenever a call is handed a token (the cached one, or the one a
\* refresh has just fetched), that token is not expired at that moment:
\* its expires_at > now; so every request is sent with a token that was
\* unexpired when it was read.
C16_NoExpiredTokenRead ==
    [][\A c \in Calls :
          calls'[c].token # calls[c].token =>
              /\ calls'[c].pc = "send"
              /\ calls'[c].token.present
              /\ calls'[c].token.expires_at > now]_clientVars

\* the first call's token has expired in the meantime; the second call was
\* handed a different token, unexpired, and is about to send
C16_Witness ==
    \E c, d \in Calls :
        /\ calls[c].result = "ok"
        /\ calls[c].token.present /\ calls[c].token.expires_at <= now
        /\ calls[d].pc = "send" /\ calls[d].attempts = 0
        /\ calls[d].token.present /\ calls[d].token.expires_at > now

----------------------------------------------------------------------------
(* C17 *)

----------------------------------------------------------------------------
(* APR-DRG grouper: calls                                                  *)

\* longest list of secondary diagnoses
MaxSecondary == 3

\* longest list of suggested codes of a coding job
MaxCodes == 2

\* patient ages, in years, around the thresholds 1, 75 and 80
Ages == {0, 1, 75, 76, 80, 81, 82}

\* UB-04 discharge status codes: "01" is discharged home, "20" is expired
DischargeStatuses == {"01", "20"}

SecondaryLists == UNION {[1..n -> DxCodes] : n \in 0..MaxSecondary}

SuggestedLists ==
    UNION {[1..n -> [code : DxCodes, confidence : {50, 90}]] : n \in 0..MaxCodes}

\* encounter_meta; patient_age may be missing
EncounterMetas ==
    {m \in [encounter_type : {"INPATIENT", "OUTPATIENT"},
            has_patient_age : BOOLEAN,
            patient_age : Ages,
            discharge_status : DischargeStatuses] :
        m.has_patient_age \/ m.patient_age = 0}

\* APRDRGGrouper.group called directly; the functions are pure, so a
\* behaviour makes one call
Group ==
    /\ UNCHANGED exceptTools
    /\ grouping = NoGrouping
    /\ \E principal_diagnosis \in DxCodes, secondary_diagnoses \in SecondaryLists,
          age \in Ages, discharge_status \in DischargeStatuses :
          grouping' =
            [op |-> "group",
             meta_discharge_status |-> discharge_status,
             grouped |-> TRUE,
             principal_diagnosis |-> principal_diagnosis,
             secondary_diagnoses |-> secondary_diagnoses,
             age |-> age,
             discharge_status |-> discharge_status,
             result |-> group(principal_diagnosis, secondary_diagnoses, age,
                              "INPATIENT", discharge_status)]
    /\ UNCHANGED besides_grouping

\* CodingEngine.run_coding_job, its grouping branch: an inpatient job with
\* suggested codes is grouped by _perform_drg_grouping, any other job has no
\* apr_drg
RunCodingJob ==
    /\ UNCHANGED exceptTools
    /\ grouping = NoGrouping
    /\ \E suggested_codes \in SuggestedLists, encounter_meta \in EncounterMetas :
          IF suggested_codes # << >> /\ encounter_meta.encounter_type = "INPATIENT"
          THEN LET args == perform_drg_grouping_args(suggested_codes,
                                                     encounter_meta)
               IN grouping' =
                   [op |-> "run_coding_job",
                    meta_discharge_status |-> encounter_meta.discharge_status,
                    grouped |-> TRUE,
                    principal_diagnosis |-> args.principal_diagnosis,
                    secondary_diagnoses |-> args.secondary_diagnoses,
                    age |-> args.age,
                    discharge_status |-> args.discharge_status,
                    result |-> group(args.principal_diagnosis,
                                     args.secondary_diagnoses, args.age,
                                     args.patient_type, args.discharge_status)]
          ELSE grouping' =
                   [NoGrouping EXCEPT !.op = "run_coding_job",
                       !.meta_discharge_status = encounter_meta.discharge_status]
    /\ UNCHANGED besides_grouping

NextGrouper ==
    \/ Group
    \/ RunCodingJob

SpecGrouper == Init /\ [][NextGrouper]_toolVars

\* a secondary diagnosis that is a major complication or comorbidity
IsMajorCC(dx) ==
    \E p \in {"I50", "N18", "E11.2", "J96", "R65"} : StartsWith(dx, p)

\* the number of secondary diagnoses of the latest grouping that are major
\* complications, each counted once
MajorCCCount ==
    Cardinality({i \in 1..Len(grouping.secondary_diagnoses) :
                    IsMajorCC(grouping.secondary_diagnoses[i])})

\* 1 when the condition holds, else 0
Bonus(cond) == IF cond THEN 1 ELSE 0

\* C18: the stored risk of mortality of every grouping is 4 when the discharge
\* disposition of the call (for a coding job: of its encounter metadata) is
\* expired, and otherwise min(4, 1 + [principal prefix life-threatening]
\* + [age < 1 or age > 80] + [major-complication count >= 2]); it is in 1..4.
C18_RomFormula ==
    grouping.grouped =>
        LET rom == grouping.result.risk_of_mortality
            lifeThreatening ==
                SubSeq(Chars[grouping.principal_diagnosis], 1, 3)
                    \in {Chars["I21"], Chars["I63"], Chars["J96"]}
        IN /\ rom \in 1..4
           /\ rom = IF grouping.meta_discharge_status = "20" THEN 4
                    ELSE Min(4, 1 + Bonus(lifeThreatening)
                                  + Bonus(grouping.age < 1 \/ grouping.age > 80)
                                  + Bonus(MajorCCCount >= 2))

\* C19: the stored severity of illness of every grouping is
\* min(4, 1 + [age < 1 or age > 75] + (2 if the major-complication count is
\* at least 3, else 1 if it is at least 1, else 0)), in 1..4, each secondary
\* diagnosis counting once; principal I21.9 with secondary I50.9, age 82 and
\* discharge status 01 has severity at least 2 and risk of mortality at least 2.
C19_SoiFormula ==
    grouping.grouped =>
        LET soi == grouping.result.severity_of_illness
            ccBonus == IF MajorCCCount >= 3 THEN 2
                       ELSE IF MajorCCCount >= 1 THEN 1 ELSE 0
        IN /\ soi \in 1..4
           /\ soi = Min(4, 1 + Bonus(grouping.age < 1 \/ grouping.age > 75)
                             + ccBonus)
           /\ (/\ grouping.principal_diagnosis = "I21.9"
               /\ grouping.secondary_diagnoses = <<"I50.9">>
               /\ grouping.age = 82
               /\ grouping.meta_discharge_status = "01")
              => /\ soi >= 2
                 /\ grouping.result.risk_of_mortality >= 2

\* the scenario of C19 has been grouped, with one major complication counted
C19_Witness ==
    /\ grouping.op = "group"
    /\ grouping.principal_diagnosis = "I21.9"
    /\ grouping.secondary_diagnoses = <<"I50.9">>
    /\ grouping.age = 82
    /\ grouping.discharge_status = "01"
    /\ grouping.result.severity_of_illness = 3
    /\ grouping.result.risk_of_mortality = 3

----------------------------------------------------------------------------
(* Worklist prioritizer: calls                                             *)

\* longest list of coding jobs
MaxJobs == 3

\* the coding jobs a worklist is made of, without their ids
JobShapes ==
    [encounter_id : EncounterIds, confidence_score : {65, 95},
     n_suggested_codes : {1, 2}]

\* coding_jobs: the job at position i has id i
JobLists ==
    UNION {{[i \in 1..n |->
               [id |-> i,
                encounter_id |-> shapes[i].encounter_id,
                confidence_score |-> shapes[i].confidence_score,
                n_suggested_codes |-> shapes[i].n_suggested_codes]] :
            shapes \in [1..n -> JobShapes]} : n \in 0..MaxJobs}

\* prioritize_worklist(coding_jobs, encounters); the function is pure, so a
\* behaviour makes one call
PrioritizeWorklist ==
    /\ UNCHANGED exceptTools
    /\ worklist = NoWorklist
    /\ \E coding_jobs \in JobLists :
          worklist' = [input |-> coding_jobs,
                       output |-> prioritize_worklist(coding_jobs),
                       called |-> TRUE]
    /\ UNCHANGED besides_worklist

NextWorklist == PrioritizeWorklist

SpecWorklist == Init /\ [][NextWorklist]_toolVars

\* the admission date of the encounter of a job of the worklist
AdmissionOf(job) == GetEncounter(job.encounter_id)

\* C20: the worklist is in descending order of opportunity_score, and of two
\* jobs of equal opportunity_score with an admission date the one admitted
\* earlier comes first.
C20_WorklistOrder ==
    LET out == worklist.output
    IN \A i, j \in 1..Len(out) :
          i < j =>
            /\ out[i].opportunity_score >= out[j].opportunity_score
            /\ (/\ out[i].opportunity_score = out[j].opportunity_score
                /\ AdmissionOf(out[i]).has_admission_dt
                /\ AdmissionOf(out[j]).has_admission_dt)
               => AdmissionOf(out[i]).admission_dt
                     <= AdmissionOf(out[j]).admission_dt

----------------------------------------------------------------------------
(* Opportunity scorer: calls                                               *)

\* confidence_score of a coding job, in hundredths
ScoredConfidences == {0, 65, 100}

\* most suggested codes of a scored job
MaxScoredCodes == 6

\* estimated_revenue, in thousands
Revenues == {0, 25, 100, 250}

\* admission_dt as a day number: 60, 30, 5 and 0 days before Today, and 1 and 30
\* days after it
AdmissionDays == {Today - 60, Today - 30, Today - 5, Today, Today + 1, Today + 30}

ScoredEncounters ==
    [estimated_revenue : Revenues, has_admission_dt : {TRUE},
     admission_dt : AdmissionDays]
    \cup [estimated_revenue : Revenues, has_admission_dt : {FALSE},
          admission_dt : {0}]

\* calculate_opportunity_score(coding_job, encounter); the function is pure, so
\* a behaviour makes one call
CalculateOpportunityScore ==
    /\ UNCHANGED exceptTools
    /\ scoring = NoScoring
    /\ \E c \in ScoredConfidences, n \in 0..MaxScoredCodes,
          encounter \in ScoredEncounters :
          LET coding_job == [confidence_score |-> c, n_suggested_codes |-> n]
              raises == OpportunityScoreRaises(encounter)
          IN scoring' =
                [called |-> TRUE, confidence_score |-> c,
                 n_suggested_codes |-> n, encounter |-> encounter,
                 raised |-> raises,
                 score |-> IF raises THEN 0
                           ELSE calculate_opportunity_score(coding_job, encounter)]
    /\ UNCHANGED besides_scoring

NextScorer == CalculateOpportunityScore

SpecScorer == Init /\ [][NextScorer]_toolVars

\* C21: every call of the scorer, whatever the confidence, the number of
\* suggested codes, the revenue and the admission date (missing and future
\* ones included), returns a score between 0 and 100.
C21_ScoreInRange ==
    scoring.called =>
        /\ ~scoring.raised
        /\ scoring.score \in 0..10000

----------------------------------------------------------------------------
(* KPI calculators (src/IMPLEMENTATION_PLAN.md, apr_drg_grouper.py and      *)
(* kpi_calculator.py). Weights are in thousandths, rates in hundredths of a *)
(* percent, days in hundredths, dates in days, discharge ages in hours.     *)

\* longest input collection of a KPI calculation
MaxKpiRows == 2

\* round(a / b, digits) on values already scaled by 10^digits: the nearest
\* integer to a / b (no input of the model falls on a half)
RoundDiv(a, b) == (2 * a + b) \div (2 * b)

\* sum(...) of a list of numbers
RECURSIVE SumSeq(_)
SumSeq(nums) == IF nums = << >> THEN 0 ELSE Head(nums) + SumSeq(Tail(nums))

\* sum(f(x) for x in s)
SumOver(s, f(_)) == SumSeq([i \in 1..Len(s) |-> f(s[i])])

\* claims: status, payment_date (None when has_payment_date is FALSE),
\* submitted_at (None when has_submitted_at is FALSE, as for an unsent claim
\* of shared/types.ts) and revision_count
KpiClaims ==
    {c \in [status : {"FC_3", "SENT"}, has_payment_date : BOOLEAN,
            payment_date : {0, 15}, has_submitted_at : BOOLEAN,
            submitted_at : {0, 10}, revision_count : {0, 1}] :
        /\ (c.has_payment_date <=> c.payment_date = 15)
        /\ (c.has_submitted_at <=> c.submitted_at = 10)}

\* encounters: relative_weight is a number ("set"), a key that is missing
\* ("missing") or None ("null", the NULL of the encounters table);
\* discharge_dt is missing ("none") or a number of hours before now
KpiEncounters ==
    {e \in [encounter_type : {"INPATIENT", "OUTPATIENT"},
            weight_state : {"set", "missing", "null"},
            relative_weight : {0, 1000, 3000},
            discharged : BOOLEAN, discharge_hours_ago : {0, 72},
            claim_submitted : BOOLEAN] :
        /\ (e.weight_state = "set" <=> e.relative_weight # 0)
        /\ (e.discharge_hours_ago = 72 => e.discharged)}

\* coding jobs: only the phase matters
KpiJobs == [phase : {"CAC", "SEMI_AUTONOMOUS", "AUTONOMOUS"}]

KpiLists(S) == UNION {[1..n -> S] : n \in 0..MaxKpiRows}

\* the answer of a KPI calculation: a value, or an exception
KpiValue(v) == [raised |-> FALSE, value |-> v]
KpiRaised == [raised |-> TRUE, value |-> 0]

\* enc.get("relative_weight", 0): 0 for a missing key
GetWeight(enc) == IF enc.weight_state = "set" THEN enc.relative_weight ELSE 0

\* sum() over weights fails with TypeError when one of them is None
SumRaises(encs) == \E i \in 1..Len(encs) : encs[i].weight_state = "null"

\* calculate_cmi of apr_drg_grouper.py
calculate_cmi(encs) ==
    IF encs = << >> THEN KpiValue(0)
    ELSE IF SumRaises(encs) THEN KpiRaised
    ELSE KpiValue(RoundDiv(SumOver(encs, GetWeight), Len(encs)))

\* KPICalculator.calculate_ar_days: datetime.fromisoformat(claim['submitted_at'])
\* fails with TypeError when submitted_at is None
calculate_ar_days(cs) ==
    LET paid(c) == c.status = "FC_3" /\ c.has_payment_date
        paid_claims == SelectSeq(cs, paid)
        days(c) == c.payment_date - c.submitted_at
    IN IF paid_claims = << >> THEN KpiValue(0)
       ELSE IF \E i \in 1..Len(paid_claims) : ~paid_claims[i].has_submitted_at
            THEN KpiRaised
       ELSE KpiValue(RoundDiv(100 * SumOver(paid_claims, days), Len(paid_claims)))

\* the staleness threshold of calculate_dnfb, in hours
DNFB_HOURS == 48

\* KPICalculator.calculate_dnfb: the rate
calculate_dnfb(encs) ==
    LET isDischarged(e) == e.discharged
        discharged == SelectSeq(encs, isDischarged)
        stale(e) == e.discharge_hours_ago > DNFB_HOURS /\ ~e.claim_submitted
        dnfb_encounters == SelectSeq(discharged, stale)
    IN IF discharged = << >> THEN KpiValue(0)
       ELSE KpiValue(RoundDiv(Len(dnfb_encounters) * 10000, Len(discharged)))

\* KPICalculator.calculate_clean_claim_rate
calculate_clean_claim_rate(cs) ==
    LET clean(c) == c.status = "FC_3" /\ c.revision_count = 0
    IN IF cs = << >> THEN KpiValue(0)
       ELSE KpiValue(RoundDiv(Len(SelectSeq(cs, clean)) * 10000, Len(cs)))

\* KPICalculator.calculate_cmi: the current index, over inpatient encounters
calculate_cmi_kpi(encs) ==
    LET isInpatient(e) == e.encounter_type = "INPATIENT"
        inpatient == SelectSeq(encs, isInpatient)
    IN IF inpatient = << >> THEN KpiValue(0)
       ELSE IF SumRaises(inpatient) THEN KpiRaised
       ELSE KpiValue(RoundDiv(SumOver(inpatient, GetWeight), Len(inpatient)))

\* KPICalculator.calculate_automation_rate
calculate_automation_rate(js) ==
    LET automated(j) == j.phase \in {"AUTONOMOUS", "SEMI_AUTONOMOUS"}
    IN IF js = << >> THEN KpiValue(0)
       ELSE KpiValue(RoundDiv(Len(SelectSeq(js, automated)) * 10000, Len(js)))

\* one KPI calculation; the functions are pure, so a behaviour makes one call
KpiCall(fn, input, answer) ==
    kpi' = [fn |-> fn, input |-> input, raised |-> answer.raised,
            value |-> answer.value]

CalculateCmi ==
    /\ UNCHANGED exceptTools
    /\ kpi = NoKpi
    /\ \E encs \in KpiLists(KpiEncounters) :
          KpiCall("calculate_cmi", encs, calculate_cmi(encs))
    /\ UNCHANGED besides_kpi

CalculateArDays ==
    /\ UNCHANGED exceptTools
    /\ kpi = NoKpi
    /\ \E cs \in KpiLists(KpiClaims) :
          KpiCall("calculate_ar_days", cs, calculate_ar_days(cs))
    /\ UNCHANGED besides_kpi

CalculateDnfb ==
    /\ UNCHANGED exceptTools
    /\ kpi = NoKpi
    /\ \E encs \in KpiLists(KpiEncounters) :
          KpiCall("calculate_dnfb", encs, calculate_dnfb(encs))
    /\ UNCHANGED besides_kpi

CalculateCleanClaimRate ==
    /\ UNCHANGED exceptTools
    /\ kpi = NoKpi
    /\ \E cs \in KpiLists(KpiClaims) :
          KpiCall("calculate_clean_claim_rate", cs, calculate_clean_claim_rate(cs))
    /\ UNCHANGED besides_kpi

CalculateCmiKpi ==
    /\ UNCHANGED exceptTools
    /\ kpi = NoKpi
    /\ \E encs \in KpiLists(KpiEncounters) :
          KpiCall("KPICalculator.calculate_cmi", encs, calculate_cmi_kpi(encs))
    /\ UNCHANGED besides_kpi

CalculateAutomationRate ==
    /\ UNCHANGED exceptTools
    /\ kpi = NoKpi
    /\ \E js \in KpiLists(KpiJobs) :
          KpiCall("calculate_automation_rate", js, calculate_automation_rate(js))
    /\ UNCHANGED besides_kpi

NextKpi ==
    \/ CalculateCmi
    \/ CalculateArDays
    \/ CalculateDnfb
    \/ CalculateCleanClaimRate
    \/ CalculateCmiKpi
    \/ CalculateAutomationRate

SpecKpi == Init /\ [][NextKpi]_toolVars

\* C22: every KPI calculation answers with a value, never with an exception,
\* and with 0 for an empty collection; the case-mix index of no encounters is
\* 0.0 and that of two encounters of weights 1.0 and 3.0 is 2.0.
C22_KpiTotalZeroOnEmpty ==
    kpi.fn # "none" =>
        /\ ~kpi.raised
        /\ kpi.input = << >> => kpi.value = 0
        /\ (/\ kpi.fn = "calculate_cmi"
            /\ Len(kpi.input) = 2
            /\ kpi.input[1].weight_state = "set"
            /\ kpi.input[1].relative_weight = 1000
            /\ kpi.input[2].weight_state = "set"
            /\ kpi.input[2].relative_weight = 3000)
           => kpi.value = 2000

----------------------------------------------------------------------------
(* Coding engine with both groupers: runs                                  *)

\* encounter_meta of a run: encounter_type may be missing
EngineMetas ==
    [encounter_type : {"INPATIENT", "OUTPATIENT", "ED", "AMBULATORY", "missing"},
     has_patient_age : {FALSE}, patient_age : {0},
     discharge_status : {"01"},
     primary_procedure : {"", "12345"},
     n_ancillary_services : {0, 2}]

\* encounter_meta.get("encounter_type", "INPATIENT")
EncounterTypeOf(encounter_meta) ==
    IF encounter_meta.encounter_type = "missing" THEN "INPATIENT"
    ELSE encounter_meta.encounter_type

\* max(codes, ...) of _perform_drg_grouping raises ValueError on an empty list
DrgGroupingRaises(codes) == codes = << >>

\* CodingEngine.run_coding_job with the EAPG integration, its grouper choice:
\* an inpatient run calls _perform_drg_grouping, any other run calls
\* _perform_eapg_grouping
RunCodingJobEapg ==
    /\ UNCHANGED exceptTools
    /\ engineRun = NoEngineRun
    /\ \E suggested_codes \in SuggestedLists, encounter_meta \in EngineMetas :
          LET encounter_type == EncounterTypeOf(encounter_meta)
              started == [NoEngineRun EXCEPT
                             !.called = TRUE,
                             !.encounter_type = encounter_type,
                             !.suggested_codes = suggested_codes]
          IN IF encounter_type = "INPATIENT"
             THEN IF DrgGroupingRaises(suggested_codes)
                  THEN engineRun' = [started EXCEPT !.raised = TRUE]
                  ELSE LET args == perform_drg_grouping_args(
                                       suggested_codes,
                                       [encounter_meta EXCEPT
                                           !.encounter_type = encounter_type])
                       IN engineRun' =
                            [started EXCEPT
                                !.drg_ran = TRUE,
                                !.principal_diagnosis = args.principal_diagnosis,
                                !.secondary_diagnoses = args.secondary_diagnoses,
                                !.apr_drg =
                                    group(args.principal_diagnosis,
                                          args.secondary_diagnoses, args.age,
                                          args.patient_type,
                                          args.discharge_status)]
             ELSE engineRun' =
                    [started EXCEPT
                        !.eapg_ran = TRUE,
                        !.eapg =
                            eapg_group(encounter_meta.primary_procedure,
                                       [i \in 1..Len(suggested_codes) |->
                                           suggested_codes[i].code],
                                       encounter_meta.n_ancillary_services,
                                       encounter_type)]
    /\ UNCHANGED besides_engineRun

NextEngine == RunCodingJobEapg

SpecEngine == Init /\ [][NextEngine]_toolVars

\* how often a code occurs in a list of codes
Occurrences(code, list) == Cardinality({i \in 1..Len(list) : list[i] = code})

\* C23: in every run of a coding job the inpatient grouper runs exactly when
\* the encounter type is INPATIENT and there is a suggested code, with the
\* code of greatest confidence as principal diagnosis and every other code as
\* a secondary one; the outpatient grouper runs exactly when the encounter
\* type is not INPATIENT; they never both run, and the run does not fail.
C23_OneGrouperByType ==
    engineRun.called =>
        LET codes == [i \in 1..Len(engineRun.suggested_codes) |->
                         engineRun.suggested_codes[i].code]
            inpatient == engineRun.encounter_type = "INPATIENT"
        IN /\ ~engineRun.raised
           /\ engineRun.drg_ran <=> (inpatient /\ codes # << >>)
           /\ engineRun.eapg_ran <=> ~inpatient
           /\ ~(engineRun.drg_ran /\ engineRun.eapg_ran)
           /\ engineRun.drg_ran =>
                /\ \E i \in 1..Len(codes) :
                      /\ codes[i] = engineRun.principal_diagnosis
                      /\ \A j \in 1..Len(codes) :
                            engineRun.suggested_codes[j].confidence
                                <= engineRun.suggested_codes[i].confidence
                /\ \A d \in DxCodes \ {engineRun.principal_diagnosis} :
                      Occurrences(d, engineRun.secondary_diagnoses)
                          = Occurrences(d, codes)
                /\ Occurrences(engineRun.principal_diagnosis,
                               engineRun.secondary_diagnoses) = 0

----------------------------------------------------------------------------
(* EAPG grouper: calls                                                     *)

\* longest list of diagnoses of an outpatient visit
MaxEapgDx == 2

\* diagnoses of outpatient visits
EapgDxCodes == {"E11.9", "I10", "Z00.00", "Z12.1"}

EapgDxLists == UNION {[1..n -> EapgDxCodes] : n \in 0..MaxEapgDx}

\* EAPGGrouper.group called directly; the function is pure, so a behaviour
\* makes one call
EapgGroup ==
    /\ UNCHANGED exceptTools
    /\ eapg = NoEapgCall
    /\ \E primary_procedure \in ProcedureCodes, diagnoses \in EapgDxLists,
          n \in {0, 2}, encounter_type \in {"ED", "OUTPATIENT", "AMBULATORY"} :
          eapg' = [called |-> TRUE, primary_procedure |-> primary_procedure,
                   diagnoses |-> diagnoses, n_ancillary_services |-> n,
                   encounter_type |-> encounter_type,
                   result |-> eapg_group(primary_procedure, diagnoses, n,
                                         encounter_type)]
    /\ UNCHANGED besides_eapg

NextEapg == EapgGroup

SpecEapg == Init /\ [][NextEapg]_toolVars

C25_Expected ==
    CASE grouping.principal_diagnosis = "I21.9" ->
            [code |-> "190", weights |-> <<8234, 12456, 18934, 34521>>]
      [] grouping.principal_diagnosis = "E11.9" ->
            [code |-> "420", weights |-> <<4521, 6234, 9456, 15678>>]
      [] OTHER -> [code |-> "139", weights |-> <<5427, 7842, 12156, 21453>>]

\* C25: every inpatient grouping, of a principal diagnosis with or without an
\* entry in the prefix table, has the base group of the first three characters
\* of the code, or the fallback group, and as relative_weight that group's
\* weight for the computed severity of illness, which is not negative.
C25_BaseGroupAndWeight ==
    grouping.grouped =>
        /\ grouping.result.apr_drg_code = C25_Expected.code
        /\ grouping.result.severity_of_illness \in 1..4
        /\ grouping.result.relative_weight
              = C25_Expected.weights[grouping.result.severity_of_illness]
        /\ grouping.result.relative_weight >= 0

\* a principal diagnosis without an entry has been grouped into the fallback
\* group, at severity 2
C25_Witness ==
    /\ grouping.op = "group"
    /\ grouping.principal_diagnosis = "N18.3"
    /\ grouping.result.apr_drg_code = "139"
    /\ grouping.result.severity_of_illness = 2
    /\ grouping.result.relative_weight = 7842

----------------------------------------------------------------------------
(* C26 *)

\* the jobs that ingest requests created
IngestedJobIds == {NewJobId(n) : n \in 0..(MaxIngest - 1)} \cap DOMAIN jobs

\* C26: the stored confidence_score of every ingested job is the arithmetic
\* mean of the confidences of its suggested codes, in hundredths.
C26_ScoreIsMean ==
    \A id \in IngestedJobIds :
        LET job == jobs[id]
        IN job.confidence_score * Len(job.suggested_codes)
              = SumConfidence(job.suggested_codes)

\* C26, amended: the stored confidence_score of every ingested job is the mean
\* of the confidences of its suggested codes rounded to a hundredth (at most
\* half a hundredth from the mean), 0 for a job without codes, and the phase
\* follows the stored value: CAC up to 0.90, AUTONOMOUS only above 0.98.
C26_ScoreIsRoundedMean ==
    \A id \in IngestedJobIds :
        LET job == jobs[id]
            n == Len(job.suggested_codes)
            sum == SumConfidence(job.suggested_codes)
        IN /\ 2 * n * job.confidence_score <= 2 * sum + n
           /\ 2 * n * job.confidence_score >= 2 * sum - n
           /\ n = 0 => job.confidence_score = 0
           /\ job.phase = "CAC" <=> job.confidence_score <= 90
           /\ job.phase = "AUTONOMOUS" => job.confidence_score > 98

\* an ingested job of two codes whose mean is no whole number of hundredths
\* is stored with the rounded value
C26_Witness ==
    \E id \in IngestedJobIds :
        /\ Len(jobs[id].suggested_codes) = 2
        /\ SumConfidence(jobs[id].suggested_codes) = 189
        /\ jobs[id].confidence_score \in {94, 95}


(***************************************************************************)
(* Error reports of the browser: POST /api/client-errors                   *)

\* reports of one client a minute lets through according to the comment
RATE_LIMIT == 10

\* entries of earlier minutes than the last two are deleted
CleanUp(limits, minute) ==
    [k \in LimitKeys |-> IF k[2] < minute - 2 THEN 0 ELSE limits[k]]

\* one report: the body is parsed (a body that is no JSON is answered 500
\* before anything is counted), then the count of the client's minute is read,
\* compared and incremented
ClientError ==
    /\ UNCHANGED exceptTools
    /\ limiter.reports < MaxReports
    /\ \E header \in ConnectingIPs, body_is_json \in BOOLEAN :
          LET clientIP == IF header = NoHeader THEN "unknown" ELSE header
              key == <<clientIP, limiter.minute>>
              count == limiter.errorReportLimits[key]
          IN  limiter' =
                IF ~body_is_json
                THEN [limiter EXCEPT !.reports = @ + 1, !.status = 500]
                ELSE IF count > 10
                THEN [limiter EXCEPT !.reports = @ + 1, !.status = 429]
                ELSE [limiter EXCEPT
                        !.errorReportLimits =
                            CleanUp([@ EXCEPT ![key] = count + 1],
                                    limiter.minute),
                        !.succeeded[key] = @ + 1,
                        !.reports = @ + 1,
                        !.status = 200]
    /\ UNCHANGED besides_limiter

\* the clock of the worker reaches the next minute
MinutePasses ==
    /\ UNCHANGED exceptTools
    /\ limiter.minute < MaxMinute
    /\ limiter' = [limiter EXCEPT !.minute = @ + 1, !.status = 0]
    /\ UNCHANGED besides_limiter

NextLimiter == ClientError \/ MinutePasses

SpecLimiter == Init /\ [][NextLimiter]_toolVars

\* C27: for every client IP and every minute, the number of error reports
\* answered with success is at most 10
C27_AtMostTen == \A k \in LimitKeys : limiter.succeeded[k] <= RATE_LIMIT


(***************************************************************************)
(* Phase and confidence of the stored jobs                                 *)

\* the phase of a stored job agrees with its stored confidence_score
PhaseConsistent(job) ==
    /\ job.phase = "AUTONOMOUS" => job.confidence_score > AUTONOMOUS_THRESHOLD
    /\ job.phase = "SEMI_AUTONOMOUS" => job.confidence_score > SEMI_THRESHOLD

\* C28: in every state of the job store (the seeded jobs and whatever the
\* ingest and accept routes have stored), a job of phase AUTONOMOUS has a
\* confidence_score above 0.98 and a job of phase SEMI_AUTONOMOUS one above
\* 0.90
C28_PhaseConsistent == \A id \in DOMAIN jobs : PhaseConsistent(jobs[id])


(***************************************************************************)
(* Listing of the claims: GET /api/claims                                  *)

\* largest limit of a request
MaxLimit == 5

\* the status parameter of a request: a claim status, 'all', or none
NoStatus == "(no status)"

StatusQueries == {"DRAFT", "SENT", "FC_3", "REJECTED", "NEEDS_REVIEW", "all", NoStatus}

\* the order in which the collection lists its claims: as seeded, or by key
ClaimOrders ==
    { <<"cl1", "cl2", "cl3", "cl4", "cl5", "cl6", "cl7", "cl8", "cl9", "cl10">>,
      <<"cl1", "cl10", "cl2", "cl3", "cl4", "cl5", "cl6", "cl7", "cl8", "cl9">> }

\* the cursor of the first request and the next of the last page
NoCursor == 0

\* ClaimEntity.list(env, cursor, limit): the limit claims after the cursor and
\* the cursor of the rest, none when the collection is exhausted
List(order, cursor, limit) ==
    [items |-> SubSeq(order, cursor + 1, Min(cursor + limit, Len(order))),
     next |-> IF cursor + limit < Len(order) THEN cursor + limit ELSE NoCursor]

\* items.filter(...)
Filter(items, Keep(_)) == SelectSeq(items, Keep)

\* the page the route answers: twice the limit is fetched, the fetched claims
\* are filtered by status, the first limit of them are returned together with
\* the cursor behind all the fetched ones
ClaimsPage(store, order, status, limit, cursor) ==
    LET page == List(order, cursor, limit * 2)
        Matches(id) == store[id] = status
        filteredItems == IF status /= NoStatus /\ status /= "all"
                         THEN Filter(page.items, Matches)
                         ELSE page.items
    IN  [items |-> SubSeq(filteredItems, 1, Min(limit, Len(filteredItems))),
         next |-> page.next]

\* a client has received one more page
Received(l, page) ==
    [l EXCEPT !.returned = @ \o page.items, !.next = page.next,
              !.pages = @ + 1, !.finished = (page.next = NoCursor)]

\* the first request of a client: no cursor
GetClaims ==
    /\ UNCHANGED clientVars
    /\ ~listing.started
    /\ jobs' = EnsureSeed(jobs, MOCK_CODING_JOBS)
    /\ audit' = EnsureSeedBag(audit, MOCK_AUDIT_LOGS)
    /\ claims' = EnsureSeed(claims, MOCK_CLAIMS)
    /\ encounters' = IF encounters = << >> THEN MOCK_ENCOUNTERS ELSE encounters
    /\ UNCHANGED <<clock, last>>
    /\ \E status \in StatusQueries, limit \in 1..MaxLimit, order \in ClaimOrders :
          listing' = Received([listing EXCEPT !.started = TRUE, !.status = status,
                                              !.limit = limit, !.order = order],
                              ClaimsPage(claims', order, status, limit, NoCursor))
    /\ UNCHANGED besides_listing

\* the client follows the next cursor of the page it received
GetClaimsNext ==
    /\ UNCHANGED clientVars
    /\ listing.started
    /\ ~listing.finished
    /\ jobs' = EnsureSeed(jobs, MOCK_CODING_JOBS)
    /\ audit' = EnsureSeedBag(audit, MOCK_AUDIT_LOGS)
    /\ claims' = EnsureSeed(claims, MOCK_CLAIMS)
    /\ encounters' = IF encounters = << >> THEN MOCK_ENCOUNTERS ELSE encounters
    /\ UNCHANGED <<clock, last>>
    /\ listing' = Received(listing,
                           ClaimsPage(claims', listing.order, listing.status,
                                      listing.limit, listing.next))
    /\ UNCHANGED besides_listing

NextListing == GetClaims \/ GetClaimsNext

SpecListing == Init /\ [][NextListing]_<<vars, toolVars>>

\* the stored claims a listing with a status filter is to return
Matching(store, status) == {id \in DOMAIN store : store[id] = status}

\* C29: when a listing with a status filter has followed the cursors to the
\* end, every stored claim of that status has been returned exactly once and
\* no other claim has been returned
C29_EveryMatchOnce ==
    (listing.finished /\ listing.status \notin {"all", NoStatus}) =>
        \A id \in DOMAIN claims :
            Occurrences(id, listing.returned) =
                IF id \in Matching(claims, listing.status) THEN 1 ELSE 0


(***************************************************************************)
(* Payment reconciliation: GET /api/payments, POST /api/reconcile-batch    *)

\* reconcile-batch requests of one behaviour
MaxBatchRequests == 3

\* id |-> reconciled of MOCK_PAYMENTS
MOCK_PAYMENTS ==
    [p \in {"pay1", "pay2", "pay3", "pay4"} |-> p \in {"pay1", "pay2"}]

\* the order in which the collection lists its payments
PaymentOrder == <<"pay1", "pay2", "pay3", "pay4">>

\* PaymentEntity.list(env): the stored payments
ListPayments(store) ==
    LET Stored(id) == id \in DOMAIN store
    IN  SelectSeq(PaymentOrder, Stored)

\* pEntity.patch({ reconciled: true })
PatchReconciled(store, id) == [store EXCEPT ![id] = TRUE]

SetBatch(b, rec) == [recon EXCEPT !.batch[b] = rec]

\* GET /api/payments: seeds every collection, returns a page
GetPayments ==
    /\ UNCHANGED clientVars
    /\ jobs' = EnsureSeed(jobs, MOCK_CODING_JOBS)
    /\ audit' = EnsureSeedBag(audit, MOCK_AUDIT_LOGS)
    /\ claims' = EnsureSeed(claims, MOCK_CLAIMS)
    /\ encounters' = IF encounters = << >> THEN MOCK_ENCOUNTERS ELSE encounters
    /\ UNCHANGED <<clock, last>>
    /\ recon' = [recon EXCEPT !.payments = EnsureSeed(@, MOCK_PAYMENTS)]
    /\ UNCHANGED besides_recon

\* a reconcile-batch request arrives and waits for its timer
ReconcileBatch ==
    /\ UNCHANGED <<vars, clientVars>>
    /\ recon.requests < MaxBatchRequests
    /\ \E b \in Batches :
          /\ recon.batch[b].pc = "idle"
          /\ recon' = [SetBatch(b, [IdleBatch EXCEPT !.pc = "timer"])
                         EXCEPT !.requests = @ + 1]
    /\ UNCHANGED besides_recon

\* after the timer the request lists the payments and keeps the unreconciled
\* ones
ReconcileList ==
    /\ UNCHANGED <<vars, clientVars>>
    /\ \E b \in Batches :
          /\ recon.batch[b].pc = "timer"
          /\ LET items == ListPayments(recon.payments)
                 NotReconciled(id) == ~recon.payments[id]
             IN  recon' = SetBatch(b, [recon.batch[b] EXCEPT
                                         !.pc = "patching",
                                         !.unreconciled = SelectSeq(items, NotReconciled)])
    /\ UNCHANGED besides_recon

\* one round of the loop over unreconciled.slice(0, 2): the payment is patched
ReconcilePatch ==
    /\ UNCHANGED <<vars, clientVars>>
    /\ \E b \in Batches :
          LET call == recon.batch[b]
              id == call.unreconciled[call.patched + 1]
              flip == ~recon.payments[id]
          IN  /\ call.pc = "patching"
              /\ call.patched < Min(2, Len(call.unreconciled))
              /\ recon' = [SetBatch(b, [call EXCEPT !.patched = @ + 1,
                                                    !.flips = @ + (IF flip THEN 1 ELSE 0)])
                             EXCEPT !.payments = PatchReconciled(@, id),
                                    !.changed = IF flip THEN @ \cup {id} ELSE @]
    /\ UNCHANGED besides_recon

\* after the loop the audit record is written and the request is answered with
\* reconciled_count = Math.min(2, unreconciled.length)
ReconcileAnswer ==
    /\ UNCHANGED clientVars
    /\ UNCHANGED <<jobs, claims, encounters, clock, last>>
    /\ audit' = Log(audit, AuditRec("system", "payment.batch_reconciled",
                                    "system_job", "job"))
    /\ \E b \in Batches :
          LET call == recon.batch[b]
          IN  /\ call.pc = "patching"
              /\ call.patched = Min(2, Len(call.unreconciled))
              /\ recon' = [SetBatch(b, [call EXCEPT !.pc = "idle"])
                             EXCEPT !.reported = @ + Min(2, Len(call.unreconciled))]
    /\ UNCHANGED besides_recon

NextReconcile ==
    \/ GetPayments
    \/ ReconcileBatch
    \/ ReconcileList
    \/ ReconcilePatch
    \/ ReconcileAnswer

SpecReconcile == Init /\ [][NextReconcile]_<<vars, toolVars>>

\* every request has been answered
AllAnswered == \A b \in Batches : recon.batch[b].pc = "idle"

\* C30: whatever the interleaving of the reconcile-batch requests, no payment
\* goes from reconciled back to unreconciled, no request flips more than 2
\* payments, and once the requests are answered the sum of the reported
\* reconciled_count values is the number of payments that went from
\* unreconciled to reconciled
C30_ReconcileCounts ==
    /\ \A id \in DOMAIN recon.payments :
          (MOCK_PAYMENTS[id] \/ id \in recon.changed) => recon.payments[id]
    /\ \A b \in Batches : recon.batch[b].flips <= 2
    /\ AllAnswered => recon.reported = Cardinality(recon.changed)

====
